---- MODULE Spec2Model ----
(***************************************************************************)
(* Model of the Ollama benchmark drivers of revoxz/LLMtesting:             *)
(*   src/ollama_smart_benchmark.go  (config-driven "smart" driver)         *)
(*   src/ollama_benchmark.go        (basic driver)                         *)
(* Go strings are modelled as sequences of one-character strings so that   *)
(* strings.HasPrefix, strings.Contains, strings.Split and sort.Strings are *)
(* computed character by character, as the library computes them.          *)
(***************************************************************************)
EXTENDS Integers, Sequences, FiniteSets, TLC

(***************************************************************************)
(* String helpers (package strings / sort of the Go standard library).     *)
(***************************************************************************)

\* The characters used by the identifiers of the model, in ASCII order.
Alphabet ==
  <<"-", ".", "0", "1", "2", "3", "4", "5", "6", "7", "8", "9", ":",
    "a", "b", "c", "d", "e", "f", "g", "h", "i", "j", "k", "l", "m",
    "n", "o", "p", "q", "r", "s", "t", "u", "v", "w", "x", "y", "z">>

\* Byte order of a character (position in ASCII order).
Ord(c) == CHOOSE i \in 1..Len(Alphabet) : Alphabet[i] = c

\* strings.HasPrefix(s, prefix)
HasPrefix(s, prefix) ==
  /\ Len(prefix) <= Len(s)
  /\ SubSeq(s, 1, Len(prefix)) = prefix

\* strings.Contains(s, substr)
Contains(s, substr) ==
  \E i \in 1..(Len(s) - Len(substr) + 1) : SubSeq(s, i, i + Len(substr) - 1) = substr

\* Position of the first ':' of s at or after position from, 0 when there is none.
RECURSIVE IndexColon(_, _)
IndexColon(s, from) ==
  IF from > Len(s) THEN 0
  ELSE IF s[from] = ":" THEN from
  ELSE IndexColon(s, from + 1)

\* strings.Split(s, ":"): the parts of s between the ':' separators.
RECURSIVE SplitColon(_)
SplitColon(s) ==
  LET k == IndexColon(s, 1)
  IN  IF k = 0 THEN <<s>>
      ELSE <<SubSeq(s, 1, k - 1)>> \o SplitColon(SubSeq(s, k + 1, Len(s)))

\* a < b in the ordinal (byte-wise) order of Go strings.
RECURSIVE StrLess(_, _)
StrLess(a, b) ==
  IF b = <<>> THEN FALSE
  ELSE IF a = <<>> THEN TRUE
  ELSE IF a[1] # b[1] THEN Ord(a[1]) < Ord(b[1])
  ELSE StrLess(Tail(a), Tail(b))

\* Insert string x into the ascending sequence sorted.
RECURSIVE InsertSorted(_, _)
InsertSorted(sorted, x) ==
  IF sorted = <<>> THEN <<x>>
  ELSE IF StrLess(x, sorted[1]) THEN <<x>> \o sorted
  ELSE <<sorted[1]>> \o InsertSorted(Tail(sorted), x)

\* sort.Strings(list): list in ascending ordinal order, every element kept.
RECURSIVE SortStrings(_)
SortStrings(list) ==
  IF list = <<>> THEN <<>>
  ELSE InsertSorted(SortStrings(Tail(list)), list[1])

\* x occurs in the sequence list.
InSeq(list, x) == \E i \in 1..Len(list) : list[i] = x

\* Number of positions of list holding x.
Count(list, x) == Cardinality({i \in 1..Len(list) : list[i] = x})

(***************************************************************************)
(* Variant catalog and footprint estimator.                                *)
(***************************************************************************)

\* The table of getCommonVariants: family name and its reference variants.
variants ==
  <<
    [family |-> <<"q","w","e","n","2",".","5">>,
     list |-> <<<<"q","w","e","n","2",".","5",":","0",".","5","b">>,
               <<"q","w","e","n","2",".","5",":","1",".","5","b">>,
               <<"q","w","e","n","2",".","5",":","3","b">>,
               <<"q","w","e","n","2",".","5",":","7","b">>,
               <<"q","w","e","n","2",".","5",":","1","4","b">>,
               <<"q","w","e","n","2",".","5",":","3","2","b">>>>],
    [family |-> <<"g","e","m","m","a","2">>,
     list |-> <<<<"g","e","m","m","a","2",":","2","b">>,
               <<"g","e","m","m","a","2",":","9","b">>,
               <<"g","e","m","m","a","2",":","2","7","b">>>>],
    [family |-> <<"l","l","a","m","a","3",".","2">>,
     list |-> <<<<"l","l","a","m","a","3",".","2",":","1","b">>,
               <<"l","l","a","m","a","3",".","2",":","3","b">>>>],
    [family |-> <<"l","l","a","m","a","3",".","1">>,
     list |-> <<<<"l","l","a","m","a","3",".","1",":","8","b">>,
               <<"l","l","a","m","a","3",".","1",":","7","0","b">>,
               <<"l","l","a","m","a","3",".","1",":","4","0","5","b">>>>],
    [family |-> <<"m","i","s","t","r","a","l">>,
     list |-> <<<<"m","i","s","t","r","a","l",":","7","b">>,
               <<"m","i","s","t","r","a","l",":","l","a","t","e","s","t">>>>],
    [family |-> <<"c","o","d","e","l","l","a","m","a">>,
     list |-> <<<<"c","o","d","e","l","l","a","m","a",":","7","b">>,
               <<"c","o","d","e","l","l","a","m","a",":","1","3","b">>,
               <<"c","o","d","e","l","l","a","m","a",":","3","4","b">>,
               <<"c","o","d","e","l","l","a","m","a",":","7","0","b">>>>],
    [family |-> <<"p","h","i","3">>,
     list |-> <<<<"p","h","i","3",":","m","i","n","i">>,
               <<"p","h","i","3",":","m","e","d","i","u","m">>>>],
    [family |-> <<"d","e","e","p","s","e","e","k","-","c","o","d","e","r">>,
     list |-> <<<<"d","e","e","p","s","e","e","k","-","c","o","d","e","r",":","1",".","3","b">>,
               <<"d","e","e","p","s","e","e","k","-","c","o","d","e","r",":","6",".","7","b">>,
               <<"d","e","e","p","s","e","e","k","-","c","o","d","e","r",":","3","3","b">>>>]
  >>

\* The if/else-if chain of estimateModelRAM, in source order: an arm holds
\* the tokens of its strings.Contains disjunction and the sizeNum it assigns.
estimateArms ==
  <<
    [tokens |-> <<<<"0",".","5","b">>, <<"0",".","6","b">>>>, sizeNum |-> 1],
    [tokens |-> <<<<"1","b">>, <<"1",".","3","b">>, <<"1",".","5","b">>, <<"1",".","7","b">>>>, sizeNum |-> 2],
    [tokens |-> <<<<"2","b">>>>, sizeNum |-> 2],
    [tokens |-> <<<<"3","b">>>>, sizeNum |-> 3],
    [tokens |-> <<<<"6",".","7","b">>, <<"7","b">>>>, sizeNum |-> 5],
    [tokens |-> <<<<"8","b">>>>, sizeNum |-> 6],
    [tokens |-> <<<<"9","b">>>>, sizeNum |-> 6],
    [tokens |-> <<<<"1","3","b">>, <<"1","4","b">>>>, sizeNum |-> 9],
    [tokens |-> <<<<"2","7","b">>>>, sizeNum |-> 16],
    [tokens |-> <<<<"3","2","b">>, <<"3","3","b">>, <<"3","4","b">>>>, sizeNum |-> 20],
    [tokens |-> <<<<"7","0","b">>>>, sizeNum |-> 40],
    [tokens |-> <<<<"2","3","5","b">>>>, sizeNum |-> 130],
    [tokens |-> <<<<"4","0","5","b">>>>, sizeNum |-> 220],
    [tokens |-> <<<<"6","7","1","b">>>>, sizeNum |-> 370],
    [tokens |-> <<<<"m","i","n","i">>>>, sizeNum |-> 3],
    [tokens |-> <<<<"m","e","d","i","u","m">>>>, sizeNum |-> 9]
  >>

\* getCommonVariants(family): the reference variants of a family, or the
\* single entry family:latest for a family missing from the table.
getCommonVariants(family) ==
  IF \E k \in 1..Len(variants) : variants[k].family = family
  THEN variants[CHOOSE k \in 1..Len(variants) : variants[k].family = family].list
  ELSE <<family \o <<":","l","a","t","e","s","t">> >>

\* extractModelSize taking parts[0], the family, for the size.
extractModelSizeFamily(modelName) ==
  LET parts == SplitColon(modelName)
  IN  IF Len(parts) > 1 THEN parts[1] ELSE <<"u","n","k","n","o","w","n">>

\* extractModelSize(modelName): parts[1] of the split at ':', else "unknown".
extractModelSize(modelName) ==
  LET parts == SplitColon(modelName)
  IN  IF Len(parts) > 1 THEN parts[2] ELSE <<"u","n","k","n","o","w","n">>

\* The first arm at or after k whose condition holds for size, 0 when none does.
RECURSIVE FirstArm(_, _)
FirstArm(size, k) ==
  IF k > Len(estimateArms) THEN 0
  ELSE IF \E j \in 1..Len(estimateArms[k].tokens) : Contains(size, estimateArms[k].tokens[j])
       THEN k
       ELSE FirstArm(size, k + 1)

\* The default of estimateModelRAM.
DefaultSizeNum == 5

\* estimateModelRAM(modelName): the sizeNum of the first arm that matches.
estimateModelRAM(modelName) ==
  LET size == extractModelSize(modelName)
      k == FirstArm(size, 1)
  IN  IF k = 0 THEN DefaultSizeNum ELSE estimateArms[k].sizeNum

\* Lines 358-362: append every installed name (in the map's iteration order,
\* given as the sequence order) that has the family name as a prefix.
RECURSIVE AppendInstalled(_, _, _, _)
AppendInstalled(models, order, familyName, k) ==
  IF k > Len(order) THEN models
  ELSE AppendInstalled(
         IF HasPrefix(order[k], familyName) THEN Append(models, order[k]) ELSE models,
         order, familyName, k + 1)

\* Lines 368-380: append each common variant that is not already in the list.
RECURSIVE AppendVariants(_, _, _)
AppendVariants(models, commonVariants, k) ==
  IF k > Len(commonVariants) THEN models
  ELSE AppendVariants(
         IF InSeq(models, commonVariants[k]) THEN models
         ELSE Append(models, commonVariants[k]),
         commonVariants, k + 1)

\* Lines 352-382: the loop over config.LLMFamilies.
RECURSIVE FamilyLoop(_, _, _, _)
FamilyLoop(models, families, order, k) ==
  IF k > Len(families) THEN models
  ELSE IF ~families[k].Enabled THEN FamilyLoop(models, families, order, k + 1)
  ELSE LET withInstalled == AppendInstalled(models, order, families[k].Name, 1)
           withVariants ==
             IF families[k].TestAllVariants
             THEN AppendVariants(withInstalled, getCommonVariants(families[k].Name), 1)
             ELSE withInstalled
       IN  FamilyLoop(withVariants, families, order, k + 1)

\* getOllamaLibraryModels adding the reference variants of every enabled
\* family, whatever its test_all_variants says.
getOllamaLibraryModelsAllVariants(families, tagsOk, order) ==
  IF ~tagsOk THEN <<>>
  ELSE SortStrings(FamilyLoop(<<>>,
                              [k \in 1..Len(families) |->
                                 [families[k] EXCEPT !.TestAllVariants = TRUE]],
                              order, 1))

\* getOllamaLibraryModels going through the disabled families as well.
getOllamaLibraryModelsDisabledToo(families, tagsOk, order) ==
  IF ~tagsOk THEN <<>>
  ELSE SortStrings(FamilyLoop(<<>>,
                              [k \in 1..Len(families) |->
                                 [families[k] EXCEPT !.Enabled = TRUE]],
                              order, 1))

\* getOllamaLibraryModels(config): tagsOk is whether GET /api/tags answered
\* with a decodable body, order the iteration order of the installed map.
getOllamaLibraryModels(families, tagsOk, order) ==
  IF ~tagsOk THEN <<>>
  ELSE SortStrings(FamilyLoop(<<>>, families, order, 1))

\* The admission test with a strict comparison: a model that fits exactly is
\* turned away.
AdmitsStrict(model, availableRAMGB, minFreeRAMGB) ==
  estimateModelRAM(model) + minFreeRAMGB < availableRAMGB

\* The admission test of filterModelsByResources (line 472).
Admits(model, availableRAMGB, minFreeRAMGB) ==
  estimateModelRAM(model) + minFreeRAMGB <= availableRAMGB

\* filterModelsByResources filtering whatever skip_if_insufficient_resources
\* says.
filterModelsByResourcesAlways(models, info, cfg) ==
  SelectSeq(models, LAMBDA model : Admits(model, info.AvailableRAMGB, cfg.MinFreeRAMGB))

\* filterModelsByResources(models, sysInfo, config)
filterModelsByResources(models, info, cfg) ==
  IF ~cfg.SkipIfInsufficientResources THEN models
  ELSE SelectSeq(models, LAMBDA model : Admits(model, info.AvailableRAMGB, cfg.MinFreeRAMGB))

\* The total RAM sizes at which float64(total) * 0.7 rounds below the exact
\* product total * 7 / 10, within 0..200 GB (0.7 is not a binary fraction).
RoundsBelow == {90, 170, 180}

\* getSystemInfo, lines 312-317: AvailableRAMGB from TotalRAMGB and GOARCH.
AvailableRAM(totalRAMGB, arch) ==
  IF arch = "arm64"
  THEN IF totalRAMGB \in RoundsBelow
       THEN (totalRAMGB * 7) \div 10 - 1
       ELSE (totalRAMGB * 7) \div 10
  ELSE totalRAMGB - 8

(***************************************************************************)
(* Benchmark executor.                                                     *)
(***************************************************************************)

\* The battery of main (lines 180-206): name and category, in declared order.
testCases ==
  <<[Name |-> "Simple Reasoning", Category |-> "reasoning"],
    [Name |-> "Code Generation", Category |-> "coding"],
    [Name |-> "Mathematical Problem", Category |-> "math"],
    [Name |-> "Creative Writing", Category |-> "creative"],
    [Name |-> "Question Answering", Category |-> "qa"]>>

NumTests == Len(testCases)

\* The model list of the basic driver (ollama_benchmark.go lines 74-79).
basicModels ==
  << <<"l","l","a","m","a","3",".","2",":","1","b">>,
     <<"l","l","a","m","a","3",".","2",":","3","b">> ,
     <<"g","e","m","m","a","2",":","2","b">>,
     <<"q","w","e","n","2",".","5",":","0",".","5","b">> >>

\* float64 values are kept as exact multiples of 1/FloatDen: a sum of up to
\* NumTests values divided by a count in 1..NumTests stays exact.
FloatDen == 3 * 4 * 5

\* The ways the daemon answers POST /api/generate during a run: a body that
\* is no JSON object, or a decodable body with its counters (durations in
\* nanoseconds) and the elapsed wall-clock time in milliseconds.
GenModes ==
  { [kind |-> "parseErr", EvalCount |-> 0, EvalDuration |-> 0, PromptEvalCount |-> 0,
     LoadDuration |-> 0, PromptEvalDuration |-> 0, elapsedMs |-> 0],
    [kind |-> "ok", EvalCount |-> 10, EvalDuration |-> 0, PromptEvalCount |-> 0,
     LoadDuration |-> 0, PromptEvalDuration |-> 0, elapsedMs |-> 50],
    [kind |-> "ok", EvalCount |-> 10, EvalDuration |-> 1000000000, PromptEvalCount |-> 7,
     LoadDuration |-> 5000000, PromptEvalDuration |-> 3000000, elapsedMs |-> 1200],
    [kind |-> "ok", EvalCount |-> 20, EvalDuration |-> 1000000000, PromptEvalCount |-> 7,
     LoadDuration |-> 0, PromptEvalDuration |-> 3000000, elapsedMs |-> 1100] }

\* The position of a way of answering in the round the daemon moves through:
\* zero eval duration, 10 tokens a second, 20 tokens a second, undecodable
\* body, and round again.
ModeRank(mode) ==
  IF mode.kind = "parseErr" THEN 3
  ELSE IF mode.EvalDuration = 0 THEN 0
  ELSE IF mode.EvalCount = 10 THEN 1
  ELSE 2

\* How many moves along the round take the daemon from one way of answering
\* to another.
ModeMoves(from, to) ==
  (ModeRank(to) - ModeRank(from) + Cardinality(GenModes)) % Cardinality(GenModes)

\* The rate computed per millisecond of eval duration: the factor 1e9 taken
\* for 1e6.
TokensPerSecondPerMilli(evalCount, evalDuration) ==
  (evalCount * FloatDen) \div (evalDuration \div 1000000)

\* float64(EvalCount) / float64(EvalDuration) * 1e9 for EvalDuration > 0, in
\* units of 1/FloatDen (durations of GenModes are whole milliseconds).
TokensPerSecond(evalCount, evalDuration) ==
  (evalCount * 1000 * FloatDen) \div (evalDuration \div 1000000)

\* float64(LoadDuration + PromptEvalDuration) / 1e6, in units of 1/FloatDen.
TimeToFirstToken(loadDuration, promptEvalDuration) ==
  (((loadDuration + promptEvalDuration) \div 1000) * FloatDen) \div 1000

\* The zero value of BenchmarkResult with the fields set at lines 531-536.
NewResult(model, test, smart) ==
  [ModelName |-> model,
   ModelSize |-> IF smart THEN extractModelSize(model) ELSE <<>>,
   TestName |-> test.Name, Category |-> test.Category,
   TokensPerSecond |-> 0, TimeToFirstToken |-> 0, TotalTokens |-> 0,
   PromptTokens |-> 0, TotalTimeMs |-> 0, Success |-> FALSE, Error |-> "",
   RAMUsedGB |-> 0]

\* runBenchmark going on to the metrics after a body that does not decode.
runBenchmarkParseIgnored(model, test, resp, smart) ==
  LET result == NewResult(model, test, smart)
  IN  IF resp.kind = "sendErr" THEN [result EXCEPT !.Error = "Failed to send request"]
      ELSE IF resp.kind = "readErr" THEN [result EXCEPT !.Error = "Failed to read response"]
      ELSE [result EXCEPT
              !.Error = IF resp.kind = "parseErr" THEN "Failed to parse response" ELSE "",
              !.Success = TRUE,
              !.TotalTimeMs = resp.elapsedMs * FloatDen]

\* runBenchmark(model, test) when the daemon answers resp; smart tells the
\* smart driver (which also fills ModelSize and RAMUsedGB) from the basic one.
runBenchmark(model, test, resp, smart) ==
  LET result == NewResult(model, test, smart)
  IN  IF resp.kind = "sendErr" THEN [result EXCEPT !.Error = "Failed to send request"]
      ELSE IF resp.kind = "readErr" THEN [result EXCEPT !.Error = "Failed to read response"]
      ELSE IF resp.kind = "parseErr" THEN [result EXCEPT !.Error = "Failed to parse response"]
      ELSE [result EXCEPT
              !.Success = TRUE,
              !.TotalTokens = resp.EvalCount,
              !.PromptTokens = resp.PromptEvalCount,
              !.TotalTimeMs = resp.elapsedMs * FloatDen,
              !.RAMUsedGB = IF smart THEN estimateModelRAM(model) * FloatDen ELSE 0,
              !.TokensPerSecond =
                 IF resp.EvalDuration > 0
                 THEN TokensPerSecond(resp.EvalCount, resp.EvalDuration)
                 ELSE 0,
              !.TimeToFirstToken =
                 IF resp.LoadDuration > 0 /\ resp.PromptEvalDuration > 0
                 THEN TimeToFirstToken(resp.LoadDuration, resp.PromptEvalDuration)
                 ELSE 0]

\* One update of the pull stream: a JSON object with its status, or bytes
\* that do not decode.
PullUpdates ==
  { [decodable |-> TRUE, status |-> <<"p","u","l","l","i","n","g">>],
    [decodable |-> TRUE, status |-> <<"s","u","c","c","e","s","s">>],
    [decodable |-> TRUE, status |-> <<"s","u","c","c","e","s","s","f","u","l">>],
    [decodable |-> FALSE, status |-> <<>>] }

\* The decode loop of the smart pullModel (lines 513-527) from update k on.
RECURSIVE SmartPullLoop(_, _)
SmartPullLoop(stream, k) ==
  IF k > Len(stream) THEN TRUE
  ELSE IF ~stream[k].decodable THEN FALSE
  ELSE IF Contains(stream[k].status, <<"s","u","c","c","e","s","s">>) THEN TRUE
  ELSE SmartPullLoop(stream, k + 1)

\* pullModel taking the end of the stream for a failure.
pullModelEndFails(postOk, stream) ==
  postOk /\ \E k \in 1..Len(stream) :
              /\ \A j \in 1..k : stream[j].decodable
              /\ Contains(stream[k].status, <<"s","u","c","c","e","s","s">>)

\* pullModel of the smart driver: postOk is whether http.Post returned no error.
pullModel(postOk, stream) ==
  IF ~postOk THEN FALSE ELSE SmartPullLoop(stream, 1)

\* The decode loop of the basic pullModel (ollama_benchmark.go lines 213-222).
RECURSIVE BasicPullLoop(_, _)
BasicPullLoop(stream, k) ==
  IF k > Len(stream) THEN FALSE
  ELSE IF ~stream[k].decodable THEN FALSE
  ELSE IF stream[k].status = <<"s","u","c","c","e","s","s">> THEN TRUE
  ELSE BasicPullLoop(stream, k + 1)

\* pullModel of the basic driver.
basicPullModel(postOk, stream) ==
  IF ~postOk THEN FALSE ELSE BasicPullLoop(stream, 1)

\* The install check matching by family, the part before the first ':', the
\* way the catalog matches loosely.
checkModelInstalledByFamily(model, tagsOk, names) ==
  tagsOk /\ \E name \in names : SplitColon(name)[1] = SplitColon(model)[1]

\* checkModelInstalled / checkModelAvailable: exact match in the tags listing.
checkModelInstalled(model, tagsOk, names) ==
  tagsOk /\ model \in names

\* The daemon installs a model whose pull stream reports success.
PullInstalls(postOk, stream) ==
  postOk /\ \E k \in 1..Len(stream) :
               /\ stream[k].decodable
               /\ stream[k].status = <<"s","u","c","c","e","s","s">>
               /\ \A j \in 1..k : stream[j].decodable

\* The summary with the averages taken over all results, failed ones included.
TestedSummaryOverAll(model, res, tps, time, count) ==
  [ModelName |-> model,
   ModelSize |-> extractModelSize(model),
   AvgTokensPerSec |-> IF count > 0 THEN tps \div Len(res) ELSE 0,
   AvgTotalTimeMs |-> IF count > 0 THEN time \div Len(res) ELSE 0,
   TestResults |-> res,
   CanRun |-> count > 0,
   SkipReason |-> ""]

\* The summary with the two totals exchanged.
TestedSummarySwapped(model, res, tps, time, count) ==
  [ModelName |-> model,
   ModelSize |-> extractModelSize(model),
   AvgTokensPerSec |-> IF count > 0 THEN time \div count ELSE 0,
   AvgTotalTimeMs |-> IF count > 0 THEN tps \div count ELSE 0,
   TestResults |-> res,
   CanRun |-> count > 0,
   SkipReason |-> ""]

\* The summary with CanRun set as soon as any test was run.
TestedSummaryAnyResult(model, res, tps, time, count) ==
  [ModelName |-> model,
   ModelSize |-> extractModelSize(model),
   AvgTokensPerSec |-> IF count > 0 THEN tps \div count ELSE 0,
   AvgTotalTimeMs |-> IF count > 0 THEN time \div count ELSE 0,
   TestResults |-> res,
   CanRun |-> Len(res) > 0,
   SkipReason |-> ""]

\* Lines 259-273: the ModelSummary of a tested model.
TestedSummary(model, res, tps, time, count) ==
  [ModelName |-> model,
   ModelSize |-> extractModelSize(model),
   AvgTokensPerSec |-> IF count > 0 THEN tps \div count ELSE 0,
   AvgTotalTimeMs |-> IF count > 0 THEN time \div count ELSE 0,
   TestResults |-> res,
   CanRun |-> count > 0,
   SkipReason |-> ""]

\* The summary of a skipped model with CanRun left set.
SkippedSummaryCanRun(model, reason) ==
  [ModelName |-> model, ModelSize |-> <<>>, AvgTokensPerSec |-> 0,
   AvgTotalTimeMs |-> 0, TestResults |-> <<>>, CanRun |-> TRUE,
   SkipReason |-> reason]

\* Lines 220-224 and 229-233: the ModelSummary of a skipped model.
SkippedSummary(model, reason) ==
  [ModelName |-> model, ModelSize |-> <<>>, AvgTokensPerSec |-> 0,
   AvgTotalTimeMs |-> 0, TestResults |-> <<>>, CanRun |-> FALSE,
   SkipReason |-> reason]

\* ollama_benchmark.go lines 146-158: the ModelComparison of a tested model.
Comparison(model, res, tps, time, count) ==
  [ModelName |-> model,
   AvgTokensPerSec |-> IF count > 0 THEN tps \div count ELSE 0,
   AvgTotalTimeMs |-> IF count > 0 THEN time \div count ELSE 0,
   TestResults |-> res]

(***************************************************************************)
(* Aggregator and ranker.                                                  *)
(***************************************************************************)

\* The permutations of 1..n.
Perms(n) == {p \in [1..n -> 1..n] : \A a, b \in 1..n : a # b => p[a] # p[b]}

\* The less function of an ascending sort.
RankLessAscending(a, b) == a.AvgTokensPerSec < b.AvgTokensPerSec

\* The less function of the sort at lines 607-609.
RankLess(a, b) == a.AvgTokensPerSec > b.AvgTokensPerSec

\* list with the elements at positions a and b exchanged.
Swap(list, a, b) ==
  [k \in 1..Len(list) |-> IF k = a THEN list[b] ELSE IF k = b THEN list[a] ELSE list[k]]

\* One step of the library's insertion sort: x moves left past every element
\* it is less than, starting from the right end of the sorted prefix.
RECURSIVE InsertFromRight(_, _)
InsertFromRight(prefix, x) ==
  IF prefix = <<>> THEN <<x>>
  ELSE IF RankLess(x, prefix[Len(prefix)])
       THEN Append(InsertFromRight(SubSeq(prefix, 1, Len(prefix) - 1), x), prefix[Len(prefix)])
       ELSE Append(prefix, x)

\* The library's insertion sort of list from position k on, done being sorted.
RECURSIVE InsertionSort(_, _, _)
InsertionSort(done, list, k) ==
  IF k > Len(list) THEN done
  ELSE InsertionSort(InsertFromRight(done, list[k]), list, k + 1)

\* Slices up to this length are sorted without partitioning by every release
\* of the sort package.
MaxInsertion == 12

\* The gap of the shell pass that releases before Go 1.19 run ahead of the
\* insertion sort of a short slice.
ShellGap == 6

\* The shell pass from position k on: exchange an element with the one
\* ShellGap places before it when it is less.
RECURSIVE ShellPass(_, _)
ShellPass(list, k) ==
  IF k > Len(list) THEN list
  ELSE ShellPass(IF RankLess(list[k], list[k - ShellGap])
                 THEN Swap(list, k, k - ShellGap) ELSE list,
                 k + 1)

\* The outcomes of sort.Slice(list, less) at lines 607-609. The library does
\* not promise the order of equal elements; the go toolchain of the build is
\* not fixed by the repository. A short slice is insertion sorted (Go 1.19
\* and later) or shell-passed and then insertion sorted (earlier releases);
\* a longer one may come out in any order in which no element is less than
\* an earlier one.
SortSlice(list) ==
  IF Len(list) <= MaxInsertion
  THEN { InsertionSort(<<>>, list, 1),
         InsertionSort(<<>>, ShellPass(list, ShellGap + 1), 1) }
  ELSE { [k \in 1..Len(list) |-> list[p[k]]] : p \in
           {q \in Perms(Len(list)) :
              \A a, b \in 1..Len(list) : a < b => ~RankLess(list[q[b]], list[q[a]])} }

\* Lines 598-604: the summaries with CanRun set, in their order.
Successful(sums) == SelectSeq(sums, LAMBDA s : s.CanRun)

\* Lines 619-627: the categories of the successful results of the ranked
\* summaries.
SuccessCategories(ranked) ==
  UNION {{ranked[k].TestResults[j].Category :
            j \in {i \in 1..Len(ranked[k].TestResults) : ranked[k].TestResults[i].Success}} :
         k \in 1..Len(ranked)}

\* ollama_benchmark.go lines 302-307: the categories of all results.
AllCategories(comps) ==
  UNION {{comps[k].TestResults[j].Category : j \in 1..Len(comps[k].TestResults)} :
         k \in 1..Len(comps)}

\* Nothing is best yet: bestModel := "", bestSpeed := 0.0.
NoBest == [bestModel |-> <<>>, bestSpeed |-> 0]

\* The inner loop of the best-model search from result j of model on.
RECURSIVE BestOfResults(_, _, _, _, _)
BestOfResults(res, j, category, model, best) ==
  IF j > Len(res) THEN best
  ELSE BestOfResults(res, j + 1, category, model,
         IF /\ res[j].Category = category
            /\ res[j].Success
            /\ res[j].TokensPerSecond > best.bestSpeed
         THEN [bestModel |-> model, bestSpeed |-> res[j].TokensPerSecond]
         ELSE best)

\* The outer loop of the best-model search from summary k on, in the order of
\* the list it is given.
RECURSIVE BestOfSummaries(_, _, _, _)
BestOfSummaries(sums, k, category, best) ==
  IF k > Len(sums) THEN best
  ELSE BestOfSummaries(sums, k + 1, category,
         BestOfResults(sums[k].TestResults, 1, category, sums[k].ModelName, best))

\* Lines 646-662 (ollama_benchmark.go lines 326-342): the best model of each
\* category; the empty name stands for a category that no line is printed for.
BestInCategory(sums, categories) ==
  [category \in categories |-> BestOfSummaries(sums, 1, category, NoBest).bestModel]

\* Lines 672-678: the loop for the smallest working model from position i on,
\* over the estimates of the ranked list; smallest is a position (0 for nil).
RECURSIVE SmallestLoop(_, _, _)
SmallestLoop(estimates, i, smallest) ==
  IF i > Len(estimates) THEN smallest
  ELSE SmallestLoop(estimates, i + 1,
         IF smallest = 0 \/ estimates[i] < estimates[smallest] THEN i ELSE smallest)

\* Lines 671-678: the position of the smallest working model in the ranked
\* list, estimateModelRAM taken once for each model.
Smallest(successful) ==
  SmallestLoop([i \in 1..Len(successful) |-> estimateModelRAM(successful[i].ModelName)],
               1, 0)

\* The report of displayResults when the ranking comes out as ranked.
SmartReport(sums, ranked) ==
  IF Len(sums) = 0
  THEN [shown |-> FALSE, ranking |-> <<>>, bestOverall |-> <<>>,
        mostEfficient |-> <<>>, bestInCategory |-> <<>>]
  ELSE [shown |-> TRUE,
        ranking |-> ranked,
        bestOverall |-> IF Len(ranked) > 0 THEN ranked[1].ModelName ELSE <<>>,
        mostEfficient |-> IF Len(ranked) > 0
                          THEN ranked[Smallest(ranked)].ModelName ELSE <<>>,
        bestInCategory |-> BestInCategory(ranked, SuccessCategories(ranked))]

\* The report of displayComparison: the comparisons in the order they were made.
BasicReport(comps) ==
  [shown |-> Len(comps) > 0, ranking |-> comps, bestOverall |-> <<>>,
   mostEfficient |-> <<>>,
   bestInCategory |-> BestInCategory(comps, AllCategories(comps))]

NoReport ==
  [shown |-> FALSE, ranking |-> <<>>, bestOverall |-> <<>>,
   mostEfficient |-> <<>>, bestInCategory |-> <<>>]

(***************************************************************************)
(* Compatibility checker (llm_checker.go).                                 *)
(***************************************************************************)

LLMModel(name, minRAM, minGPUMemory, requiresGPU) ==
  [Name |-> name, MinRAM |-> minRAM, MinGPUMemory |-> minGPUMemory,
   RequiresGPU |-> requiresGPU]

\* The models of main (llm_checker.go lines 59-103), in declared order.
checkerModels ==
  << LLMModel("Llama 3.2 1B (Q4)", 2, 0, FALSE),
     LLMModel("Llama 3.2 3B (Q4)", 4, 0, FALSE),
     LLMModel("Llama 3.1 8B (Q4)", 6, 0, FALSE),
     LLMModel("Llama 3.1 70B (Q4)", 40, 0, FALSE),
     LLMModel("Llama 3.1 405B (Q4)", 220, 0, FALSE),
     LLMModel("GPT-2 Small 124M (Q4)", 1, 0, FALSE),
     LLMModel("GPT-2 Medium 355M (Q4)", 1, 0, FALSE),
     LLMModel("GPT-2 Large 774M (Q4)", 2, 0, FALSE),
     LLMModel("Mistral 7B (Q4)", 5, 0, FALSE),
     LLMModel("Mixtral 8x7B (Q4)", 30, 0, FALSE),
     LLMModel("Phi-3 Mini 3.8B (Q4)", 3, 0, FALSE),
     LLMModel("Phi-3 Medium 14B (Q4)", 9, 0, FALSE),
     LLMModel("Gemma 2B (Q4)", 2, 0, FALSE),
     LLMModel("Gemma 7B (Q4)", 5, 0, FALSE),
     LLMModel("CodeLlama 7B (Q4)", 5, 0, FALSE),
     LLMModel("CodeLlama 13B (Q4)", 8, 0, FALSE),
     LLMModel("CodeLlama 34B (Q4)", 20, 0, FALSE),
     LLMModel("Qwen 2.5 0.5B (Q4)", 1, 0, FALSE),
     LLMModel("Qwen 2.5 1.5B (Q4)", 2, 0, FALSE),
     LLMModel("Qwen 2.5 7B (Q4)", 5, 0, FALSE),
     LLMModel("Qwen 2.5 14B (Q4)", 9, 0, FALSE),
     LLMModel("Qwen 3 0.6B (Q4)", 1, 0, FALSE),
     LLMModel("Qwen 3 1.7B (Q4)", 2, 0, FALSE),
     LLMModel("Qwen 3 3B (Q4)", 3, 0, FALSE),
     LLMModel("Qwen 3 8B (Q4)", 6, 0, FALSE),
     LLMModel("Qwen 3 14B (Q4)", 9, 0, FALSE),
     LLMModel("Qwen 3 32B (Q4)", 20, 0, FALSE),
     LLMModel("Qwen 3 70B (Q4)", 40, 0, FALSE),
     LLMModel("Qwen 3 235B (Q4)", 130, 0, FALSE),
     LLMModel("DeepSeek R1 1.5B (Q4)", 2, 0, FALSE),
     LLMModel("DeepSeek R1 7B (Q4)", 5, 0, FALSE),
     LLMModel("DeepSeek R1 8B (Q4)", 6, 0, FALSE),
     LLMModel("DeepSeek R1 14B (Q4)", 9, 0, FALSE),
     LLMModel("DeepSeek R1 32B (Q4)", 20, 0, FALSE),
     LLMModel("DeepSeek R1 70B (Q4)", 40, 0, FALSE),
     LLMModel("DeepSeek R1 671B (Q4)", 370, 0, FALSE),
     LLMModel("DeepSeek Coder 1.3B (Q4)", 2, 0, FALSE),
     LLMModel("DeepSeek Coder 6.7B (Q4)", 5, 0, FALSE),
     LLMModel("DeepSeek Coder 33B (Q4)", 20, 0, FALSE),
     LLMModel("Nomic Embed Text v1.5", 1, 0, FALSE),
     LLMModel("Nomic Embed Text v1", 1, 0, FALSE),
     LLMModel("Stable Diffusion XL", 10, 6, TRUE),
     LLMModel("Stable Diffusion 1.5", 6, 4, TRUE) >>

\* availableMemory taking the 70% on every arm64 machine, with Metal or not.
availableMemoryAnyArm64(resources) ==
  IF resources.Arch = "arm64"
  THEN AvailableRAM(resources.TotalRAM, "arm64")
  ELSE resources.TotalRAM

\* availableMemory of checkModelCompatibility (lines 510-514): the total RAM,
\* or int64(float64(TotalRAM) * 0.7) on arm64 with Metal.
availableMemory(resources) ==
  IF resources.Arch = "arm64" /\ resources.HasMetalAPI
  THEN AvailableRAM(resources.TotalRAM, "arm64")
  ELSE resources.TotalRAM

\* Lines 507-532: canRun and reason of one model; a later check overwrites
\* the reason of an earlier one.
Compatibility(resources, model) ==
  LET ram == model.MinRAM > availableMemory(resources)
      gpu == model.RequiresGPU /\ ~resources.HasMetalAPI
      gpuMemory == /\ model.MinGPUMemory > 0
                   /\ resources.Arch # "arm64"
                   /\ resources.GPUMemory < model.MinGPUMemory
  IN  [canRun |-> ~ram /\ ~gpu /\ ~gpuMemory,
       reason |-> IF gpuMemory THEN "Insufficient GPU memory"
                  ELSE IF gpu THEN "Requires GPU acceleration (Metal API not available)"
                  ELSE IF ram THEN "Insufficient RAM"
                  ELSE ""]

\* Lines 534-565: the entry appended for a model, to compatible when canRun
\* and to incompatible otherwise.
CompatibleEntry(resources, model) ==
  [Name |-> model.Name,
   status |-> IF resources.Arch = "arm64" /\ resources.HasMetalAPI
              THEN "ok (Metal optimized)" ELSE "ok"]

IncompatibleEntry(model, reason) == [Name |-> model.Name, reason |-> reason]

NoResources == [Arch |-> "", TotalRAM |-> 0, GPUMemory |-> 0, HasMetalAPI |-> FALSE]

NoChecker == [resources |-> NoResources, k |-> 0, compatible |-> <<>>, incompatible |-> <<>>]

(***************************************************************************)
(* State.                                                                  *)
(***************************************************************************)

VARIABLES
  pc,              \* position of main
  driver,          \* "smart" (ollama_smart_benchmark.go) or "basic" (ollama_benchmark.go)
  config,          \* the content of config.json
  host,            \* the machine: total RAM in GB and GOARCH
  sysInfo,         \* SystemInfo as returned by getSystemInfo
  daemonUp,        \* whether GET /api/tags answers 200 at start-up
  installed,       \* the model names the daemon lists
  genMode,         \* how the daemon currently answers POST /api/generate
  modeChanges,     \* how often the daemon has changed its way of answering
  availableModels, \* the catalog
  testableModels,  \* the admitted models (the model list of the basic driver)
  m,               \* index of the current model in testableModels
  t,               \* index of the next test case
  results,         \* results of the current model
  totalTPS,        \* sum of TokensPerSecond over the current model's successes
  totalTime,       \* sum of TotalTimeMs over the current model's successes
  successCount,    \* number of successes of the current model
  summaries,       \* the ModelSummary list (ModelComparison list of the basic driver)
  report,          \* what displayResults / displayComparison reports
  estModel,        \* argument of a stand-alone estimateModelRAM call
  estResult,       \* its result
  requests,        \* the requests sent to the daemon so far, in order
  pullCall,        \* a stand-alone pullModel call: its inputs and result
  checker          \* llm_checker.go: the resources and the two lists of
                   \* checkModelCompatibility

vars ==
  <<pc, driver, config, host, sysInfo, daemonUp, installed, genMode, modeChanges,
    availableModels, testableModels, m, t, results, totalTPS, totalTime,
    successCount, summaries, report, estModel, estResult, requests, pullCall,
    checker>>

(***************************************************************************)
(* Bounds and input domains.                                               *)
(***************************************************************************)

\* Longest family list of a configuration of the catalog specification.
MaxFamilies == 2

\* Most changes of the daemon's way of answering generation requests in a run.
MaxModeChanges == 2

\* Longest pull stream.
MaxStream == 2

s_llama3 == <<"l","l","a","m","a","3">>
s_llama32 == <<"l","l","a","m","a","3",".","2">>
s_phi3 == <<"p","h","i","3">>
s_llama32_1b == <<"l","l","a","m","a","3",".","2",":","1","b">>
s_llama3_70b == <<"l","l","a","m","a","3",":","7","0","b">>
s_phi3_medium == <<"p","h","i","3",":","m","e","d","i","u","m">>

Family(name, enabled, all) ==
  [Name |-> name, Enabled |-> enabled, TestAllVariants |-> all]

\* The sequences over S of length at most n.
SeqsUpTo(S, n) == UNION {[1..k -> S] : k \in 0..n}

\* The enumerations of the set S (iteration orders of a Go map with keys S).
Orders(S) ==
  {o \in [1..Cardinality(S) -> S] : \A a, b \in 1..Cardinality(S) : a # b => o[a] # o[b]}

FamilyChoices ==
  {Family(n, e, a) : n \in {s_llama3, s_llama32, s_phi3}, e \in BOOLEAN, a \in BOOLEAN}

InstalledChoices == {s_llama32_1b, s_llama3_70b, s_phi3_medium}

Hosts == {[TotalRAMGB |-> 24, Arch |-> "amd64"], [TotalRAMGB |-> 16, Arch |-> "arm64"]}

\* The configurations with the given family lists, RAM shares, margins,
\* auto-pull flags and parallel flags.
Configs(familyLists, percents, minFrees, autoPulls, parallels) ==
  [LLMFamilies : familyLists,
   MaxRAMUsagePercent : percents,
   MinFreeRAMGB : minFrees,
   AutoPullModels : autoPulls,
   SkipIfInsufficientResources : BOOLEAN,
   ParallelTesting : parallels]

\* The family lists of the runs of the smart driver.
RunFamilyLists ==
  { <<Family(s_llama32, TRUE, FALSE)>>,
    <<Family(s_llama3, TRUE, FALSE), Family(s_llama32, TRUE, FALSE)>>,
    <<Family(s_phi3, TRUE, TRUE), Family(s_llama32, FALSE, TRUE)>> }

RunInstalledSets == { {}, {s_llama32_1b, s_phi3_medium} }

\* The installed sets of the runs of the basic driver.
BasicInstalledSets == { {basicModels[2]}, {basicModels[1], basicModels[3], basicModels[4]} }

\* The machines of the runs of the smart driver: 16 GB and 11 GB available.
RunHosts == Hosts

\* The daemon's usual way of answering: 10 tokens in one second.
NominalMode ==
  [kind |-> "ok", EvalCount |-> 10, EvalDuration |-> 1000000000, PromptEvalCount |-> 7,
   LoadDuration |-> 5000000, PromptEvalDuration |-> 3000000, elapsedMs |-> 1200]

\* The daemon's ways of answering when a run starts: the usual one, or
\* bodies that do not decode.
StartModes == {NominalMode} \cup {mode \in GenModes : mode.kind = "parseErr"}

PullStreams == SeqsUpTo(PullUpdates, MaxStream)

\* What a pull of the smart driver can come to, over every transport outcome
\* and every stream: the result of pullModel and whether the daemon installed.
SmartPulls ==
  {[ok |-> pullModel(postOk, stream), installs |-> PullInstalls(postOk, stream)] :
     postOk \in BOOLEAN, stream \in PullStreams}

\* The same for the pullModel of the basic driver.
BasicPulls ==
  {[ok |-> basicPullModel(postOk, stream), installs |-> PullInstalls(postOk, stream)] :
     postOk \in BOOLEAN, stream \in PullStreams}

\* A request to the daemon: http.Get of /api/tags ("tags"), http.Post of
\* /api/pull ("pull") or of /api/generate ("generate"), sent in iteration iter
\* of the model loop (0 before the loop) for model and test case number test;
\* ok is what the call that sent it returned to main: checkOllamaRunning's and
\* checkModelInstalled's result, whether the catalog's listing was decoded,
\* pullModel's result, the Success of runBenchmark's result.
Request(kind, iter, model, test, ok) ==
  [kind |-> kind, iter |-> iter, model |-> model, test |-> test, ok |-> ok]

\* No stand-alone pullModel call.
NoPullCall == [basic |-> FALSE, postOk |-> FALSE, stream |-> <<>>, returned |-> FALSE, ok |-> FALSE]

NoSysInfo == [TotalRAMGB |-> 0, AvailableRAMGB |-> 0, Arch |-> ""]

NoConfig ==
  [LLMFamilies |-> <<>>, MaxRAMUsagePercent |-> 0, MinFreeRAMGB |-> 0,
   AutoPullModels |-> FALSE, SkipIfInsufficientResources |-> FALSE,
   ParallelTesting |-> FALSE]

(***************************************************************************)
(* Initial states.                                                         *)
(***************************************************************************)

\* The variables main has not assigned yet.
InitLocals ==
  /\ sysInfo = NoSysInfo
  /\ availableModels = <<>>
  /\ testableModels = <<>>
  /\ m = 0
  /\ t = 0
  /\ results = <<>>
  /\ totalTPS = 0
  /\ totalTime = 0
  /\ successCount = 0
  /\ summaries = <<>>
  /\ report = NoReport
  /\ modeChanges = 0
  /\ estModel = <<>>
  /\ estResult = 0
  /\ requests = <<>>
  /\ pullCall = NoPullCall
  /\ checker = NoChecker

InitSmart ==
  /\ driver = "smart"
  /\ pc = "start"
  /\ config \in Configs(RunFamilyLists, {70}, {4}, BOOLEAN, BOOLEAN)
  /\ host \in RunHosts
  /\ daemonUp \in BOOLEAN
  /\ installed \in RunInstalledSets
  /\ genMode \in StartModes
  /\ InitLocals

\* Largest total RAM, in GB, of the machines of the system-profile
\* specification.
MaxTotalRAM == 128

\* main of the smart driver on a machine of any size and architecture, with
\* one family asking for all its variants.
InitSysInfo ==
  /\ driver = "smart"
  /\ pc = "start"
  /\ config \in Configs({<<Family(s_llama32, TRUE, TRUE)>>}, {70}, {0, 4}, {TRUE}, {FALSE})
  /\ host \in [TotalRAMGB : 0..MaxTotalRAM, Arch : {"arm64", "amd64"}]
  /\ daemonUp = TRUE
  /\ installed = {s_llama32_1b}
  /\ genMode = NominalMode
  /\ InitLocals

\* What can come back from one POST /api/generate: no response, a body that
\* cannot be read, a body that is no JSON object, or a decodable body with
\* its counters, some of them zero.
Responses ==
  [kind : {"sendErr", "readErr", "parseErr"}, EvalCount : {0}, EvalDuration : {0},
   PromptEvalCount : {0}, LoadDuration : {0}, PromptEvalDuration : {0}, elapsedMs : {0}]
  \cup
  [kind : {"ok"}, EvalCount : {0, 10, 15}, EvalDuration : {0, 500000000, 1000000000},
   PromptEvalCount : {7}, LoadDuration : {0, 5000000}, PromptEvalDuration : {0, 3000000},
   elapsedMs : {0, 50}]

\* One call runBenchmark(model, test) of either driver, for any test case
\* and any response.
InitBench ==
  /\ driver \in {"smart", "basic"}
  /\ pc = "bench-call"
  /\ config = NoConfig
  /\ host \in {[TotalRAMGB |-> 16, Arch |-> "arm64"]}
  /\ daemonUp = TRUE
  /\ installed = {s_llama32_1b}
  /\ genMode \in Responses
  /\ sysInfo = NoSysInfo
  /\ availableModels = <<>>
  /\ testableModels = <<s_llama32_1b>>
  /\ m = 1
  /\ t \in 1..NumTests
  /\ results = <<>>
  /\ totalTPS = 0
  /\ totalTime = 0
  /\ successCount = 0
  /\ summaries = <<>>
  /\ report = NoReport
  /\ modeChanges = 0
  /\ estModel = <<>>
  /\ estResult = 0
  /\ requests = <<>>
  /\ pullCall = NoPullCall
  /\ checker = NoChecker

\* The machines of the compatibility checker: architecture, total RAM, whether
\* system_profiler names a GPU, and the GPU memory it reports.
CheckerHosts ==
  [Arch : {"arm64", "amd64"}, TotalRAMGB : 0..MaxTotalRAM, GPU : BOOLEAN,
   GPUMemory : {0, 4, 8}]

\* main of llm_checker.go before getSystemResources.
InitChecker ==
  /\ driver = "checker"
  /\ pc = "start"
  /\ config = NoConfig
  /\ host \in CheckerHosts
  /\ daemonUp = FALSE
  /\ installed = {}
  /\ genMode = NominalMode
  /\ InitLocals

InitBasic ==
  /\ driver = "basic"
  /\ pc = "start"
  /\ config = NoConfig
  /\ host \in {[TotalRAMGB |-> 16, Arch |-> "arm64"]}
  /\ daemonUp \in BOOLEAN
  /\ installed \in BasicInstalledSets
  /\ genMode \in StartModes
  /\ InitLocals

Init == InitSmart \/ InitBasic

\* The catalog specification starts where main calls getOllamaLibraryModels
\* (line 143), with the SystemInfo of the host and the request of
\* checkOllamaRunning sent and answered.
InitCatalog ==
  /\ driver = "smart"
  /\ pc = "catalog"
  /\ config \in Configs(SeqsUpTo(FamilyChoices, MaxFamilies), {30, 70}, {2, 4}, {TRUE}, {FALSE})
  /\ host \in Hosts
  /\ daemonUp = TRUE
  /\ installed \in SUBSET InstalledChoices
  /\ genMode = NominalMode
  /\ sysInfo = [TotalRAMGB |-> host.TotalRAMGB,
                AvailableRAMGB |-> AvailableRAM(host.TotalRAMGB, host.Arch),
                Arch |-> host.Arch]
  /\ availableModels = <<>>
  /\ testableModels = <<>>
  /\ m = 0
  /\ t = 0
  /\ results = <<>>
  /\ totalTPS = 0
  /\ totalTime = 0
  /\ successCount = 0
  /\ summaries = <<>>
  /\ report = NoReport
  /\ modeChanges = 0
  /\ estModel = <<>>
  /\ estResult = 0
  /\ requests = <<Request("tags", 0, <<>>, 0, TRUE)>>
  /\ pullCall = NoPullCall
  /\ checker = NoChecker

\* Most models of a run of the report specification.
MaxModels == 8

\* The admitted models of the report specification, in catalog order.
ReportModels ==
  SortStrings(
    << <<"q","w","e","n","2",".","5",":","0",".","5","b">>,
       <<"q","w","e","n","2",".","5",":","1",".","5","b">>,
       <<"q","w","e","n","2",".","5",":","3","b">>,
       <<"q","w","e","n","2",".","5",":","7","b">>,
       <<"q","w","e","n","2",".","5",":","1","4","b">>,
       <<"g","e","m","m","a","2",":","2","b">>,
       <<"g","e","m","m","a","2",":","9","b">>,
       <<"l","l","a","m","a","3",".","2",":","1","b">>,
       <<"l","l","a","m","a","3",".","2",":","3","b">>,
       <<"p","h","i","3",":","m","i","n","i">> >>)

\* The results of a model whose NumTests requests were all answered by resp.
UniformResults(model, resp) ==
  [k \in 1..NumTests |-> runBenchmark(model, testCases[k], resp, TRUE)]

\* The summary main appends for a model answered by resp throughout.
UniformSummary(model, resp) ==
  LET res == UniformResults(model, resp)
      count == IF res[1].Success THEN NumTests ELSE 0
  IN  TestedSummary(model, res, count * res[1].TokensPerSecond,
                    count * res[1].TotalTimeMs, count)

\* The outcome of a model that is skipped as not installed.
Skipped ==
  [kind |-> "skipped", EvalCount |-> 0, EvalDuration |-> 0, PromptEvalCount |-> 0,
   LoadDuration |-> 0, PromptEvalDuration |-> 0, elapsedMs |-> 0]

\* How a model of the report specification went: skipped as not installed,
\* or tested with the daemon answering every request in one way.
Outcomes == GenModes \cup {Skipped}

\* The model of ReportModels that the daemon of the report specification has
\* not installed.
ReportMissing == ReportModels[2]

\* The summary main appends for a model that went as outcome says.
OutcomeSummary(model, outcome) ==
  IF outcome.kind = "skipped" THEN SkippedSummary(model, "Model not installed")
  ELSE UniformSummary(model, outcome)

\* OutcomeSummary for every model of ReportModels and every outcome.
OutcomeSummaries ==
  [k \in 1..Len(ReportModels) |->
     [outcome \in Outcomes |-> OutcomeSummary(ReportModels[k], outcome)]]

\* The report specification starts where main calls displayResults (line
\* 278), after a run over the first n models of ReportModels without
\* auto-pull: the model that is not installed was skipped, the others were
\* tested.
InitReport ==
  /\ driver = "smart"
  /\ pc = "model"
  /\ config = [NoConfig EXCEPT !.MinFreeRAMGB = 4]
  /\ host = [TotalRAMGB |-> 24, Arch |-> "amd64"]
  /\ daemonUp = TRUE
  /\ installed = {ReportModels[k] : k \in 1..Len(ReportModels)} \ {ReportMissing}
  /\ genMode = NominalMode
  /\ modeChanges = 0
  /\ sysInfo = [TotalRAMGB |-> 24, AvailableRAMGB |-> 16, Arch |-> "amd64"]
  /\ \E n \in 0..MaxModels :
       /\ testableModels = SubSeq(ReportModels, 1, n)
       /\ availableModels = testableModels
       /\ m = n + 1
       /\ \E outcome \in [{k \in 1..n : ReportModels[k] \in installed} -> GenModes] :
            summaries = [k \in 1..n |->
                           IF ReportModels[k] \in installed
                           THEN OutcomeSummaries[k][outcome[k]]
                           ELSE OutcomeSummaries[k][Skipped]]
  /\ t = 0
  /\ results = <<>>
  /\ totalTPS = 0
  /\ totalTime = 0
  /\ successCount = 0
  /\ report = NoReport
  /\ estModel = <<>>
  /\ estResult = 0
  /\ requests = <<>>
  /\ pullCall = NoPullCall
  /\ checker = NoChecker

\* The identifiers of the table of getCommonVariants.
ReferenceVariants ==
  UNION {{variants[k].list[j] : j \in 1..Len(variants[k].list)} : k \in 1..Len(variants)}

\* The tokens of the chain of estimateModelRAM.
Tokens ==
  UNION {{estimateArms[k].tokens[j] : j \in 1..Len(estimateArms[k].tokens)} :
           k \in 1..Len(estimateArms)}

\* The arguments of the stand-alone estimateModelRAM calls.
EstimateInputs ==
  ReferenceVariants
    \cup {<<"x", ":">> \o tok : tok \in Tokens}
    \cup { <<"x">>, <<"x", ":">>, <<"x",":","l","a","t","e","s","t">>,
           <<"x",":","f","o","o",":","7","0","b">> }

\* The estimator specification: one call of estimateModelRAM.
InitEstimate ==
  /\ driver = "smart"
  /\ pc = "estimate"
  /\ estModel \in EstimateInputs
  /\ estResult = 0
  /\ requests = <<>>
  /\ pullCall = NoPullCall
  /\ checker = NoChecker
  /\ config = NoConfig
  /\ host = [TotalRAMGB |-> 16, Arch |-> "arm64"]
  /\ daemonUp = FALSE
  /\ installed = {}
  /\ genMode = NominalMode
  /\ sysInfo = NoSysInfo
  /\ availableModels = <<>>
  /\ testableModels = <<>>
  /\ m = 0
  /\ t = 0
  /\ results = <<>>
  /\ totalTPS = 0
  /\ totalTime = 0
  /\ successCount = 0
  /\ summaries = <<>>
  /\ report = NoReport
  /\ modeChanges = 0

\* The pull specification: one call of pullModel, of either driver, on a
\* transport outcome and a stream of updates.
InitPull ==
  /\ driver \in {"smart", "basic"}
  /\ pc = "pull-call"
  /\ pullCall \in [basic : {driver = "basic"}, postOk : BOOLEAN, stream : PullStreams,
                   returned : {FALSE}, ok : {FALSE}]
  /\ checker = NoChecker
  /\ estModel = <<>>
  /\ estResult = 0
  /\ requests = <<>>
  /\ config = NoConfig
  /\ host = [TotalRAMGB |-> 16, Arch |-> "arm64"]
  /\ daemonUp = TRUE
  /\ installed = {}
  /\ genMode = NominalMode
  /\ sysInfo = NoSysInfo
  /\ availableModels = <<>>
  /\ testableModels = <<>>
  /\ m = 0
  /\ t = 0
  /\ results = <<>>
  /\ totalTPS = 0
  /\ totalTime = 0
  /\ successCount = 0
  /\ summaries = <<>>
  /\ report = NoReport
  /\ modeChanges = 0

(***************************************************************************)
(* The smart driver (ollama_smart_benchmark.go, main).                     *)
(***************************************************************************)

\* The daemon answers a listing request, or fails it as one of the changes of
\* its way of answering.
Lists(tagsOk) ==
  /\ tagsOk \in BOOLEAN
  /\ tagsOk \/ modeChanges < MaxModeChanges
  /\ modeChanges' = IF tagsOk THEN modeChanges ELSE modeChanges + 1

\* The daemon answers a generation request in its current way, or moves on
\* along its round of ways first.
Answers(resp) ==
  /\ resp \in GenModes
  /\ modeChanges + ModeMoves(genMode, resp) <= MaxModeChanges
  /\ genMode' = resp
  /\ modeChanges' = modeChanges + ModeMoves(genMode, resp)

\* Lines 238-241: the locals of one model's test phase.
StartTests ==
  /\ results' = <<>>
  /\ totalTPS' = 0
  /\ totalTime' = 0
  /\ successCount' = 0
  /\ t' = 1

\* Lines 115-120: loadConfig succeeds or main returns.
LoadConfig ==
  /\ driver = "smart" /\ pc = "start"
  /\ \E ok \in BOOLEAN : pc' = IF ok THEN "sysinfo" ELSE "aborted"
  /\ UNCHANGED <<driver, config, host, sysInfo, daemonUp, installed, genMode,
                 modeChanges, availableModels, testableModels, m, t, results,
                 totalTPS, totalTime, successCount, summaries, report,
                 estModel, estResult, requests, pullCall, checker>>

\* Lines 122-127 and getSystemInfo: sysctl succeeds or main returns.
GetSystemInfo ==
  /\ pc = "sysinfo"
  /\ \E ok \in BOOLEAN :
       IF ok
       THEN /\ sysInfo' = [TotalRAMGB |-> host.TotalRAMGB,
                           AvailableRAMGB |-> AvailableRAM(host.TotalRAMGB, host.Arch),
                           Arch |-> host.Arch]
            /\ pc' = "check"
       ELSE /\ sysInfo' = sysInfo
            /\ pc' = "aborted"
  /\ UNCHANGED <<driver, config, host, daemonUp, installed, genMode,
                 modeChanges, availableModels, testableModels, m, t, results,
                 totalTPS, totalTime, successCount, summaries, report,
                 estModel, estResult, requests, pullCall, checker>>

\* main going on to the catalog whatever checkOllamaRunning returns.
CheckOllamaRunningIgnored ==
  /\ pc = "check"
  /\ pc' = "catalog"
  /\ requests' = Append(requests, Request("tags", 0, <<>>, 0, daemonUp))
  /\ UNCHANGED <<driver, config, host, sysInfo, daemonUp, installed, genMode,
                 modeChanges, availableModels, testableModels, m, t, results,
                 totalTPS, totalTime, successCount, summaries, report,
                 estModel, estResult, pullCall, checker>>

\* Lines 134-139 and checkOllamaRunning.
CheckOllamaRunning ==
  /\ pc = "check"
  /\ pc' = IF daemonUp THEN "catalog" ELSE "aborted"
  /\ requests' = Append(requests, Request("tags", 0, <<>>, 0, daemonUp))
  /\ UNCHANGED <<driver, config, host, sysInfo, daemonUp, installed, genMode,
                 modeChanges, availableModels, testableModels, m, t, results,
                 totalTPS, totalTime, successCount, summaries, report,
                 estModel, estResult, pullCall, checker>>

\* Lines 143-148: build the catalog; an empty catalog ends the run.
BuildCatalog ==
  /\ pc = "catalog"
  /\ \E tagsOk \in BOOLEAN, order \in Orders(installed) :
       /\ availableModels' = getOllamaLibraryModels(config.LLMFamilies, tagsOk, order)
       /\ pc' = IF Len(availableModels') = 0 THEN "nothing" ELSE "filter"
       /\ requests' = Append(requests, Request("tags", 0, <<>>, 0, tagsOk))
  /\ UNCHANGED <<driver, config, host, sysInfo, daemonUp, installed, genMode,
                 modeChanges, testableModels, m, t, results,
                 totalTPS, totalTime, successCount, summaries, report,
                 estModel, estResult, pullCall, checker>>

\* Line 156: the admission filter.
Filter ==
  /\ pc = "filter"
  /\ testableModels' = filterModelsByResources(availableModels, sysInfo, config)
  /\ m' = 1
  /\ pc' = "model"
  /\ UNCHANGED <<driver, config, host, sysInfo, daemonUp, installed, genMode,
                 modeChanges, availableModels, t, results,
                 totalTPS, totalTime, successCount, summaries, report,
                 estModel, estResult, requests, pullCall, checker>>

\* Lines 211-236 up to the pull: the install check of the current model.
CheckInstalled ==
  /\ driver = "smart" /\ pc = "model" /\ m <= Len(testableModels)
  /\ \E tagsOk \in BOOLEAN :
       /\ Lists(tagsOk)
       /\ requests' = Append(requests,
                             Request("tags", m, testableModels[m], 0,
                                     checkModelInstalled(testableModels[m], tagsOk, installed)))
       /\ IF checkModelInstalled(testableModels[m], tagsOk, installed)
          THEN /\ StartTests
               /\ pc' = "test"
               /\ UNCHANGED <<m, summaries>>
          ELSE IF config.AutoPullModels
          THEN /\ pc' = "pull"
               /\ UNCHANGED <<m, summaries, t, results, totalTPS, totalTime, successCount>>
          ELSE /\ summaries' = Append(summaries,
                                      SkippedSummary(testableModels[m], "Model not installed"))
               /\ m' = m + 1
               /\ pc' = "model"
               /\ UNCHANGED <<t, results, totalTPS, totalTime, successCount>>
  /\ UNCHANGED <<driver, config, host, sysInfo, daemonUp, installed, genMode,
                 availableModels, testableModels, report,
                 estModel, estResult, pullCall, checker>>

\* The pull whose result is not looked at: the tests follow in any case.
PullUnchecked ==
  /\ driver = "smart" /\ pc = "pull"
  /\ \E pull \in SmartPulls :
       /\ requests' = Append(requests, Request("pull", m, testableModels[m], 0, pull.ok))
       /\ installed' = IF pull.installs
                       THEN installed \cup {testableModels[m]} ELSE installed
  /\ StartTests
  /\ pc' = "test"
  /\ UNCHANGED <<driver, config, host, sysInfo, daemonUp, genMode,
                 modeChanges, availableModels, testableModels, m, summaries, report,
                 estModel, estResult, pullCall, checker>>

\* Lines 218-226: pull the current model.
Pull ==
  /\ driver = "smart" /\ pc = "pull"
  /\ \E pull \in SmartPulls :
       /\ requests' = Append(requests, Request("pull", m, testableModels[m], 0, pull.ok))
       /\ installed' = IF pull.installs
                       THEN installed \cup {testableModels[m]} ELSE installed
       /\ IF pull.ok
          THEN /\ StartTests
               /\ pc' = "test"
               /\ UNCHANGED <<m, summaries>>
          ELSE /\ summaries' = Append(summaries,
                                      SkippedSummary(testableModels[m], "Failed to pull model"))
               /\ m' = m + 1
               /\ pc' = "model"
               /\ UNCHANGED <<t, results, totalTPS, totalTime, successCount>>
  /\ UNCHANGED <<driver, config, host, sysInfo, daemonUp, genMode,
                 modeChanges, availableModels, testableModels, report,
                 estModel, estResult, pullCall, checker>>

\* The loop over testCases sending the requests of two test cases at a time
\* when parallel_testing is set.
RunTestParallel ==
  /\ driver = "smart" /\ pc = "test" /\ t <= NumTests
  /\ LET pair == config.ParallelTesting /\ t < NumTests
     IN  /\ \E resp \in GenModes :
              /\ Answers(resp)
              /\ LET first == runBenchmark(testableModels[m], testCases[t], resp, TRUE)
                 IN  requests' =
                       IF pair
                       THEN requests \o
                              <<Request("generate", m, testableModels[m], t, first.Success),
                                Request("generate", m, testableModels[m], t + 1, first.Success)>>
                       ELSE Append(requests,
                                   Request("generate", m, testableModels[m], t, first.Success))
              /\ LET first == runBenchmark(testableModels[m], testCases[t], resp, TRUE)
                     new == IF pair
                            THEN <<first, runBenchmark(testableModels[m], testCases[t + 1],
                                                       resp, TRUE)>>
                            ELSE <<first>>
                     won == IF first.Success THEN Len(new) ELSE 0
                 IN  /\ results' = results \o new
                     /\ totalTPS' = totalTPS + won * first.TokensPerSecond
                     /\ totalTime' = totalTime + won * first.TotalTimeMs
                     /\ successCount' = successCount + won
         /\ t' = IF pair THEN t + 2 ELSE t + 1
  /\ UNCHANGED <<pc, driver, config, host, sysInfo, daemonUp, installed,
                 availableModels, testableModels, m, summaries, report,
                 estModel, estResult, pullCall, checker>>

\* The loop over testCases sending the request of a failed test again.
RunTestRetried ==
  /\ driver = "smart" /\ pc = "test" /\ t <= NumTests
  /\ \E resp \in GenModes :
       /\ Answers(resp)
       /\ LET result == runBenchmark(testableModels[m], testCases[t], resp, TRUE)
          IN  /\ requests' = Append(requests,
                                    Request("generate", m, testableModels[m], t,
                                            result.Success))
              /\ IF result.Success
                 THEN /\ results' = Append(results, result)
                      /\ totalTPS' = totalTPS + result.TokensPerSecond
                      /\ totalTime' = totalTime + result.TotalTimeMs
                      /\ successCount' = successCount + 1
                      /\ t' = t + 1
                 ELSE UNCHANGED <<results, totalTPS, totalTime, successCount, t>>
  /\ UNCHANGED <<pc, driver, config, host, sysInfo, daemonUp, installed,
                 availableModels, testableModels, m, summaries, report,
                 estModel, estResult, pullCall, checker>>

\* The loop over testCases leaving at the first failed test.
RunTestStopOnFailure ==
  /\ driver = "smart" /\ pc = "test" /\ t <= NumTests
  /\ \E resp \in GenModes :
       /\ Answers(resp)
       /\ LET result == runBenchmark(testableModels[m], testCases[t], resp, TRUE)
          IN  /\ requests' = Append(requests,
                                    Request("generate", m, testableModels[m], t,
                                            result.Success))
              /\ results' = Append(results, result)
              /\ totalTPS' = IF result.Success THEN totalTPS + result.TokensPerSecond
                             ELSE totalTPS
              /\ totalTime' = IF result.Success THEN totalTime + result.TotalTimeMs
                              ELSE totalTime
              /\ successCount' = IF result.Success THEN successCount + 1 ELSE successCount
              /\ t' = IF result.Success THEN t + 1 ELSE NumTests + 1
  /\ UNCHANGED <<pc, driver, config, host, sysInfo, daemonUp, installed,
                 availableModels, testableModels, m, summaries, report,
                 estModel, estResult, pullCall, checker>>

\* Lines 243-257: one iteration of the loop over testCases.
RunTest ==
  /\ driver = "smart" /\ pc = "test" /\ t <= NumTests
  /\ \E resp \in GenModes :
       /\ Answers(resp)
       /\ \E result \in {runBenchmark(testableModels[m], testCases[t], resp, TRUE)} :
              /\ requests' = Append(requests,
                                    Request("generate", m, testableModels[m], t,
                                            result.Success))
              /\ results' = Append(results, result)
              /\ totalTPS' = IF result.Success THEN totalTPS + result.TokensPerSecond
                             ELSE totalTPS
              /\ totalTime' = IF result.Success THEN totalTime + result.TotalTimeMs
                              ELSE totalTime
              /\ successCount' = IF result.Success THEN successCount + 1 ELSE successCount
  /\ t' = t + 1
  /\ UNCHANGED <<pc, driver, config, host, sysInfo, daemonUp, installed,
                 availableModels, testableModels, m, summaries, report,
                 estModel, estResult, pullCall, checker>>

\* Lines 259-273: average and append the summary of the current model.
Summarise ==
  /\ driver = "smart" /\ pc = "test" /\ t > NumTests
  /\ summaries' = Append(summaries,
                         TestedSummary(testableModels[m], results, totalTPS,
                                       totalTime, successCount))
  /\ m' = m + 1
  /\ pc' = "model"
  /\ UNCHANGED <<driver, config, host, sysInfo, daemonUp, installed, genMode,
                 modeChanges, availableModels, testableModels, t, results,
                 totalTPS, totalTime, successCount, report, estModel, estResult,
                 requests, pullCall, checker>>

\* Line 278 and displayResults.
DisplayResults ==
  /\ driver = "smart" /\ pc = "model" /\ m > Len(testableModels)
  /\ \E ranked \in SortSlice(Successful(summaries)) :
       report' = SmartReport(summaries, ranked)
  /\ pc' = "done"
  /\ UNCHANGED <<driver, config, host, sysInfo, daemonUp, installed, genMode,
                 modeChanges, availableModels, testableModels, m, t, results,
                 totalTPS, totalTime, successCount, summaries, estModel, estResult,
                 requests, pullCall, checker>>

(***************************************************************************)
(* The basic driver (ollama_benchmark.go, main).                           *)
(***************************************************************************)

\* Lines 66-79: the liveness check, then the fixed model list.
BasicCheckOllama ==
  /\ driver = "basic" /\ pc = "start"
  /\ IF daemonUp
     THEN /\ testableModels' = basicModels
          /\ m' = 1
          /\ pc' = "model"
     ELSE /\ pc' = "aborted"
          /\ UNCHANGED <<testableModels, m>>
  /\ requests' = Append(requests, Request("tags", 0, <<>>, 0, daemonUp))
  /\ UNCHANGED <<driver, config, host, sysInfo, daemonUp, installed, genMode,
                 modeChanges, availableModels, t, results,
                 totalTPS, totalTime, successCount, summaries, report,
                 estModel, estResult, pullCall, checker>>

\* Lines 113-123 up to the pull: checkModelAvailable of the current model.
BasicCheckAvailable ==
  /\ driver = "basic" /\ pc = "model" /\ m <= Len(testableModels)
  /\ \E tagsOk \in BOOLEAN :
       /\ Lists(tagsOk)
       /\ requests' = Append(requests,
                             Request("tags", m, testableModels[m], 0,
                                     checkModelInstalled(testableModels[m], tagsOk, installed)))
       /\ IF checkModelInstalled(testableModels[m], tagsOk, installed)
          THEN /\ StartTests
               /\ pc' = "test"
          ELSE /\ pc' = "pull"
               /\ UNCHANGED <<t, results, totalTPS, totalTime, successCount>>
  /\ UNCHANGED <<driver, config, host, sysInfo, daemonUp, installed, genMode,
                 availableModels, testableModels, m, summaries, report,
                 estModel, estResult, pullCall, checker>>

\* Lines 119-122: pull the current model; a failed pull skips it.
BasicPull ==
  /\ driver = "basic" /\ pc = "pull"
  /\ \E pull \in BasicPulls :
       /\ requests' = Append(requests, Request("pull", m, testableModels[m], 0, pull.ok))
       /\ installed' = IF pull.installs
                       THEN installed \cup {testableModels[m]} ELSE installed
       /\ IF pull.ok
          THEN /\ StartTests
               /\ pc' = "test"
               /\ m' = m
          ELSE /\ m' = m + 1
               /\ pc' = "model"
               /\ UNCHANGED <<t, results, totalTPS, totalTime, successCount>>
  /\ UNCHANGED <<driver, config, host, sysInfo, daemonUp, genMode,
                 modeChanges, availableModels, testableModels, summaries, report,
                 estModel, estResult, pullCall, checker>>

\* Lines 130-144: one iteration of the loop over testCases.
BasicRunTest ==
  /\ driver = "basic" /\ pc = "test" /\ t <= NumTests
  /\ \E resp \in GenModes :
       /\ Answers(resp)
       /\ LET result == runBenchmark(testableModels[m], testCases[t], resp, FALSE)
          IN  /\ requests' = Append(requests,
                                    Request("generate", m, testableModels[m], t,
                                            result.Success))
              /\ results' = Append(results, result)
              /\ totalTPS' = IF result.Success THEN totalTPS + result.TokensPerSecond
                             ELSE totalTPS
              /\ totalTime' = IF result.Success THEN totalTime + result.TotalTimeMs
                              ELSE totalTime
              /\ successCount' = IF result.Success THEN successCount + 1 ELSE successCount
  /\ t' = t + 1
  /\ UNCHANGED <<pc, driver, config, host, sysInfo, daemonUp, installed,
                 availableModels, testableModels, m, summaries, report,
                 estModel, estResult, pullCall, checker>>

\* Lines 146-158: average and append the comparison of the current model.
BasicSummarise ==
  /\ driver = "basic" /\ pc = "test" /\ t > NumTests
  /\ summaries' = Append(summaries,
                         Comparison(testableModels[m], results, totalTPS,
                                    totalTime, successCount))
  /\ m' = m + 1
  /\ pc' = "model"
  /\ UNCHANGED <<driver, config, host, sysInfo, daemonUp, installed, genMode,
                 modeChanges, availableModels, testableModels, t, results,
                 totalTPS, totalTime, successCount, report, estModel, estResult,
                 requests, pullCall, checker>>

\* Line 163 and displayComparison.
DisplayComparison ==
  /\ driver = "basic" /\ pc = "model" /\ m > Len(testableModels)
  /\ report' = BasicReport(summaries)
  /\ pc' = "done"
  /\ UNCHANGED <<driver, config, host, sysInfo, daemonUp, installed, genMode,
                 modeChanges, availableModels, testableModels, m, t, results,
                 totalTPS, totalTime, successCount, summaries, estModel, estResult,
                 requests, pullCall, checker>>

\* The steps of the smart driver.
NextSmart ==
  \/ LoadConfig
  \/ GetSystemInfo
  \/ CheckOllamaRunning
  \/ BuildCatalog
  \/ Filter
  \/ CheckInstalled
  \/ Pull
  \/ RunTest
  \/ Summarise
  \/ DisplayResults

Next ==
  \/ LoadConfig
  \/ GetSystemInfo
  \/ CheckOllamaRunning
  \/ BuildCatalog
  \/ Filter
  \/ CheckInstalled
  \/ Pull
  \/ RunTest
  \/ Summarise
  \/ DisplayResults
  \/ BasicCheckOllama
  \/ BasicCheckAvailable
  \/ BasicPull
  \/ BasicRunTest
  \/ BasicSummarise
  \/ DisplayComparison

Spec == Init /\ [][Next]_vars

\* The runs of the smart driver on one host with the two-family
\* configuration, the daemon up or down, auto-pull on or off, and either set
\* of installed models.
InitFair ==
  /\ driver = "smart"
  /\ pc = "start"
  /\ config \in Configs({<<Family(s_llama3, TRUE, FALSE), Family(s_llama32, TRUE, FALSE)>>},
                        {70}, {4}, BOOLEAN, {FALSE})
  /\ host = [TotalRAMGB |-> 24, Arch |-> "amd64"]
  /\ daemonUp \in BOOLEAN
  /\ installed \in RunInstalledSets
  /\ genMode = NominalMode
  /\ InitLocals

\* main is one sequential thread and every call to the daemon returns: a run
\* that can take a step takes it.
SpecFair == InitFair /\ [][NextSmart]_vars /\ WF_vars(NextSmart)

\* The catalog specification: catalog construction and admission filter.
NextCatalog == BuildCatalog \/ Filter

SpecCatalog == InitCatalog /\ [][NextCatalog]_vars

\* The report specification: displayResults on the summaries of a run.
NextReport == DisplayResults

SpecReport == InitReport /\ [][NextReport]_vars

\* A call estimateModelRAM(estModel).
Estimate ==
  /\ pc = "estimate"
  /\ estResult' = estimateModelRAM(estModel)
  /\ pc' = "estimated"
  /\ UNCHANGED <<driver, config, host, sysInfo, daemonUp, installed, genMode,
                 modeChanges, availableModels, testableModels, m, t, results,
                 totalTPS, totalTime, successCount, summaries, report, estModel,
                 requests, pullCall, checker>>

NextEstimate == Estimate

SpecEstimate == InitEstimate /\ [][NextEstimate]_vars

\* The start of main on a machine of any size up to MaxTotalRAM: the system
\* profile, the daemon check, the catalog and the admission filter.
NextSysInfo == LoadConfig \/ GetSystemInfo \/ CheckOllamaRunning \/ BuildCatalog \/ Filter

SpecSysInfo == InitSysInfo /\ [][NextSysInfo]_vars

\* llm_checker.go lines 43-47 and getSystemResources: sysctl fails and main
\* returns, or the resources are filled in; Metal needs a named GPU (the
\* tool runs on darwin).
GetSystemResources ==
  /\ driver = "checker" /\ pc = "start"
  /\ \E ok \in BOOLEAN :
       IF ok
       THEN /\ checker' = [checker EXCEPT
                             !.resources = [Arch |-> host.Arch,
                                            TotalRAM |-> host.TotalRAMGB,
                                            GPUMemory |-> IF host.GPU THEN host.GPUMemory
                                                          ELSE 0,
                                            HasMetalAPI |-> host.GPU],
                             !.k = 1]
            /\ pc' = "compatibility"
       ELSE /\ checker' = checker
            /\ pc' = "aborted"
  /\ UNCHANGED <<driver, config, host, sysInfo, daemonUp, installed, genMode,
                 modeChanges, availableModels, testableModels, m, t, results,
                 totalTPS, totalTime, successCount, summaries, report,
                 estModel, estResult, requests, pullCall>>

\* One iteration of the loop of checkModelCompatibility (lines 506-566).
CheckModel ==
  /\ driver = "checker" /\ pc = "compatibility" /\ checker.k <= Len(checkerModels)
  /\ LET model == checkerModels[checker.k]
         verdict == Compatibility(checker.resources, model)
     IN  checker' =
           IF verdict.canRun
           THEN [checker EXCEPT
                   !.compatible = Append(@, CompatibleEntry(checker.resources, model)),
                   !.k = @ + 1]
           ELSE [checker EXCEPT
                   !.incompatible = Append(@, IncompatibleEntry(model, verdict.reason)),
                   !.k = @ + 1]
  /\ UNCHANGED <<pc, driver, config, host, sysInfo, daemonUp, installed, genMode,
                 modeChanges, availableModels, testableModels, m, t, results,
                 totalTPS, totalTime, successCount, summaries, report,
                 estModel, estResult, requests, pullCall>>

\* Lines 568-587: the two lists are printed.
ShowCompatibility ==
  /\ driver = "checker" /\ pc = "compatibility" /\ checker.k > Len(checkerModels)
  /\ pc' = "done"
  /\ UNCHANGED <<driver, config, host, sysInfo, daemonUp, installed, genMode,
                 modeChanges, availableModels, testableModels, m, t, results,
                 totalTPS, totalTime, successCount, summaries, report,
                 estModel, estResult, requests, pullCall, checker>>

NextChecker == GetSystemResources \/ CheckModel \/ ShowCompatibility

SpecChecker == InitChecker /\ [][NextChecker]_vars

\* A call runBenchmark(model, test) of the smart driver answered by genMode.
BenchCall ==
  /\ driver = "smart" /\ pc = "bench-call"
  /\ results' = <<runBenchmark(testableModels[m], testCases[t], genMode, TRUE)>>
  /\ requests' = Append(requests,
                        Request("generate", m, testableModels[m], t, results'[1].Success))
  /\ pc' = "benched"
  /\ UNCHANGED <<driver, config, host, sysInfo, daemonUp, installed, genMode,
                 modeChanges, availableModels, testableModels, m, t,
                 totalTPS, totalTime, successCount, summaries, report,
                 estModel, estResult, pullCall, checker>>

\* A call runBenchmark(model, test) of the basic driver answered by genMode.
BasicBenchCall ==
  /\ driver = "basic" /\ pc = "bench-call"
  /\ results' = <<runBenchmark(testableModels[m], testCases[t], genMode, FALSE)>>
  /\ requests' = Append(requests,
                        Request("generate", m, testableModels[m], t, results'[1].Success))
  /\ pc' = "benched"
  /\ UNCHANGED <<driver, config, host, sysInfo, daemonUp, installed, genMode,
                 modeChanges, availableModels, testableModels, m, t,
                 totalTPS, totalTime, successCount, summaries, report,
                 estModel, estResult, pullCall, checker>>

NextBench == BenchCall \/ BasicBenchCall

SpecBench == InitBench /\ [][NextBench]_vars

\* A call pullModel(model) of the smart driver.
PullCall ==
  /\ driver = "smart" /\ pc = "pull-call"
  /\ pullCall' = [pullCall EXCEPT !.returned = TRUE,
                                  !.ok = pullModel(pullCall.postOk, pullCall.stream)]
  /\ requests' = Append(requests, Request("pull", 0, <<>>, 0, pullCall'.ok))
  /\ pc' = "pulled"
  /\ UNCHANGED <<driver, config, host, sysInfo, daemonUp, installed, genMode,
                 modeChanges, availableModels, testableModels, m, t, results,
                 totalTPS, totalTime, successCount, summaries, report,
                 estModel, estResult, checker>>

\* A call pullModel(model) of the basic driver.
BasicPullCall ==
  /\ driver = "basic" /\ pc = "pull-call"
  /\ pullCall' = [pullCall EXCEPT !.returned = TRUE,
                                  !.ok = basicPullModel(pullCall.postOk, pullCall.stream)]
  /\ requests' = Append(requests, Request("pull", 0, <<>>, 0, pullCall'.ok))
  /\ pc' = "pulled"
  /\ UNCHANGED <<driver, config, host, sysInfo, daemonUp, installed, genMode,
                 modeChanges, availableModels, testableModels, m, t, results,
                 totalTPS, totalTime, successCount, summaries, report,
                 estModel, estResult, checker>>

NextPull == PullCall \/ BasicPullCall

SpecPull == InitPull /\ [][NextPull]_vars

(***************************************************************************)
(* Properties.                                                             *)
(***************************************************************************)

\* a is b with some entries left out, the order of the others kept.
RECURSIVE IsSubSeq(_, _)
IsSubSeq(a, b) ==
  IF a = <<>> THEN TRUE
  ELSE IF b = <<>> THEN FALSE
  ELSE IF a[1] = b[1] THEN IsSubSeq(Tail(a), Tail(b))
  ELSE IsSubSeq(a, Tail(b))

\* The elements of a sequence.
Range(list) == {list[k] : k \in 1..Len(list)}

\* Number of successful results of a result list.
SuccessCount(res) == Cardinality({k \in 1..Len(res) : res[k].Success})

\* Sum of TokensPerSecond over the successful results from position k on.
RECURSIVE SumTPS(_, _)
SumTPS(res, k) ==
  IF k > Len(res) THEN 0
  ELSE (IF res[k].Success THEN res[k].TokensPerSecond ELSE 0) + SumTPS(res, k + 1)

\* Sum of TotalTimeMs over the successful results from position k on.
RECURSIVE SumTime(_, _)
SumTime(res, k) ==
  IF k > Len(res) THEN 0
  ELSE (IF res[k].Success THEN res[k].TotalTimeMs ELSE 0) + SumTime(res, k + 1)

\* The categories of the battery in their declared order.
Battery == <<"reasoning", "coding", "math", "creative", "qa">>

\* res holds the results of the first Len(res) tests of the battery, in order.
InBatteryOrder(res) ==
  /\ Len(res) <= Len(Battery)
  /\ \A k \in 1..Len(res) : res[k].Category = Battery[k]

\* The summary s belongs to a model that reached the test phase.
Tested(s) == driver = "basic" \/ s.SkipReason = ""

\* The filter has run with skip_if_insufficient_resources enabled.
Filtered == pc = "model" /\ driver = "smart" /\ config.SkipIfInsufficientResources

\* C1: with skip_if_insufficient_resources enabled, the admitted list holds
\* exactly the catalog entries whose estimate plus min_free_ram_gb is at most
\* available_gb, in catalog order, none added or duplicated; with 16 GB
\* available and a margin of 4 an entry estimated at 9 is admitted and one
\* estimated at 13 is rejected.
C1_AdmissionRule ==
  Filtered =>
    /\ IsSubSeq(testableModels, availableModels)
    /\ \A x \in Range(availableModels) \cup Range(testableModels) :
         Count(testableModels, x) =
           IF estimateModelRAM(x) + config.MinFreeRAMGB <= sysInfo.AvailableRAMGB
           THEN Count(availableModels, x) ELSE 0
    /\ (sysInfo.AvailableRAMGB = 16 /\ config.MinFreeRAMGB = 4) =>
         \A x \in Range(availableModels) :
           /\ estimateModelRAM(x) = 9 => InSeq(testableModels, x)
           /\ estimateModelRAM(x) = 13 => ~InSeq(testableModels, x)

\* C1 witness: 16 GB available, margin 4: an entry estimated at 9 GB is
\* admitted and a larger entry of the catalog is rejected.
C1_Witness ==
  /\ Filtered
  /\ sysInfo.AvailableRAMGB = 16 /\ config.MinFreeRAMGB = 4
  /\ \E x \in Range(testableModels) : estimateModelRAM(x) = 9
  /\ \E x \in Range(availableModels) :
       estimateModelRAM(x) + 4 > 16 /\ ~InSeq(testableModels, x)

\* C2: the catalog returned by getOllamaLibraryModels is sorted ascending and
\* holds every identifier exactly once.
C2_CatalogSortedUnique ==
  pc \in {"filter", "nothing"} =>
    \A a, b \in 1..Len(availableModels) :
      a < b => StrLess(availableModels[a], availableModels[b])

\* C3: a model in its test phase has one result for each test run so far, in
\* battery order, a failed one carrying an error; a model that went through
\* the test phase ends with exactly one result per battery test, in order,
\* and no summary ever holds more results than the battery has tests.
C3_OneResultPerTest ==
  /\ pc = "test" =>
       /\ Len(results) = t - 1
       /\ InBatteryOrder(results)
       /\ \A k \in 1..Len(results) :
            /\ results[k].ModelName = testableModels[m]
            /\ results[k].TestName = testCases[k].Name
            /\ ~results[k].Success => results[k].Error # ""
  /\ \A i \in 1..Len(summaries) :
       /\ InBatteryOrder(summaries[i].TestResults)
       /\ Tested(summaries[i]) => Len(summaries[i].TestResults) = Len(Battery)

\* C3 witness: a summary with all five results in which a failed test is
\* followed by a successful one.
C3_Witness ==
  \E i \in 1..Len(summaries) :
    /\ Len(summaries[i].TestResults) = 5
    /\ \E k \in 1..4 :
         /\ ~summaries[i].TestResults[k].Success
         /\ summaries[i].TestResults[k + 1].Success

TenTwentyFail(res) ==
  /\ Len(res) >= 3
  /\ res[1].Success /\ res[1].TokensPerSecond = 10 * FloatDen
  /\ res[2].Success /\ res[2].TokensPerSecond = 20 * FloatDen
  /\ \A k \in 3..Len(res) : ~res[k].Success

\* C5: the averages of a summary are the means over its successful results
\* only; successes at 10 and 20 t/s and a failure average to 15 t/s.
C5_MeanOverSuccesses ==
  \A i \in 1..Len(summaries) :
    LET s == summaries[i]
        n == SuccessCount(s.TestResults)
    IN  /\ n > 0 =>
             /\ s.AvgTokensPerSec * n = SumTPS(s.TestResults, 1)
             /\ s.AvgTotalTimeMs * n = SumTime(s.TestResults, 1)
        /\ TenTwentyFail(s.TestResults) => s.AvgTokensPerSec = 15 * FloatDen

\* C5 witness: a summary over a success at 10 t/s, one at 20 t/s and failures.
C5_Witness ==
  \E i \in 1..Len(summaries) :
    /\ TenTwentyFail(summaries[i].TestResults)
    /\ Len(summaries[i].TestResults) = 5

\* C6 as claimed: avg_tokens_per_sec is 0 iff the model has no successful result.
C6_ZeroIffNoSuccess ==
  \A i \in 1..Len(summaries) :
    summaries[i].AvgTokensPerSec = 0 <=> SuccessCount(summaries[i].TestResults) = 0

\* C6 as amended: avg_tokens_per_sec is 0 when the model has no successful
\* result, and it is 0 iff no successful result has a positive
\* tokens_per_second.
C6_ZeroIffNoPositiveSuccess ==
  \A i \in 1..Len(summaries) :
    LET s == summaries[i]
    IN  /\ SuccessCount(s.TestResults) = 0 => s.AvgTokensPerSec = 0
        /\ s.AvgTokensPerSec = 0 <=>
             \A k \in 1..Len(s.TestResults) :
               s.TestResults[k].Success => s.TestResults[k].TokensPerSecond = 0

\* C6 witness: a summary with successful results whose average is 0, next to
\* one without any success.
C6_Witness ==
  /\ \E i \in 1..Len(summaries) :
       /\ SuccessCount(summaries[i].TestResults) > 0
       /\ summaries[i].AvgTokensPerSec = 0
  /\ \E i \in 1..Len(summaries) :
       /\ Len(summaries[i].TestResults) = 5
       /\ SuccessCount(summaries[i].TestResults) = 0

\* C7: in the smart driver can_run holds iff some result of the model succeeded.
C7_CanRunIffSuccess ==
  driver = "smart" =>
    \A i \in 1..Len(summaries) :
      summaries[i].CanRun <=> SuccessCount(summaries[i].TestResults) > 0

\* C7 witness: a model that failed all five tests has a summary, can_run false,
\* next to a model with a success.
C7_Witness ==
  /\ driver = "smart"
  /\ \E i \in 1..Len(summaries) :
       /\ Len(summaries[i].TestResults) = 5
       /\ SuccessCount(summaries[i].TestResults) = 0
       /\ ~summaries[i].CanRun
  /\ \E i \in 1..Len(summaries) : summaries[i].CanRun

\* The positions of the summaries with at least one successful result.
WithSuccess == {i \in 1..Len(summaries) : SuccessCount(summaries[i].TestResults) > 0}

\* C8: the ranking of the report holds exactly the models with a successful
\* result, in non-increasing order of avg_tokens_per_sec, every summary is
\* kept, and the best overall model is the first of the ranking.
C8_RankingOfSuccessful ==
  (driver = "smart" /\ pc = "done") =>
    /\ Len(report.ranking) = Cardinality(WithSuccess)
    /\ Range(report.ranking) = {summaries[i] : i \in WithSuccess}
    /\ \A k \in 1..(Len(report.ranking) - 1) :
         report.ranking[k].AvgTokensPerSec >= report.ranking[k + 1].AvgTokensPerSec
    /\ Len(summaries) = Len(testableModels)
    /\ report.bestOverall =
         IF Len(report.ranking) > 0 THEN report.ranking[1].ModelName ELSE <<>>

\* C8 witness: a report ranking three models of different averages that the
\* sort had to reorder, with a skipped and a zero-success model left out.
C8_Witness ==
  /\ driver = "smart" /\ pc = "done"
  /\ Len(report.ranking) >= 3
  /\ report.ranking[1].AvgTokensPerSec > report.ranking[2].AvgTokensPerSec
  /\ report.ranking[2].AvgTokensPerSec > report.ranking[3].AvgTokensPerSec
  /\ report.ranking # Successful(summaries)
  /\ report.bestOverall = report.ranking[1].ModelName
  /\ \E i \in 1..Len(summaries) : summaries[i].SkipReason # ""
  /\ \E i \in 1..Len(summaries) :
       Len(summaries[i].TestResults) = 5 /\ i \notin WithSuccess

\* C9: two ranked models with the same avg_tokens_per_sec are ranked in their
\* catalog order.
C9_RankingStable ==
  (driver = "smart" /\ pc = "done") =>
    \A a, b \in 1..Len(report.ranking) :
      (a < b /\ report.ranking[a].AvgTokensPerSec = report.ranking[b].AvgTokensPerSec) =>
        \E i, j \in 1..Len(summaries) :
          /\ i < j
          /\ summaries[i] = report.ranking[a]
          /\ summaries[j] = report.ranking[b]

\* C10: a model whose size tag is exactly one token of the estimator's chain
\* is estimated at the sizeNum the chain pairs with that token.
C10_EstimateOfToken ==
  pc = "estimated" =>
    \A k \in 1..Len(estimateArms) :
      \A j \in 1..Len(estimateArms[k].tokens) :
        extractModelSize(estModel) = estimateArms[k].tokens[j] =>
          estResult = estimateArms[k].sizeNum

\* The three identifiers of C11.
x_70b == <<"x", ":", "7", "0", "b">>
x_7b == <<"x", ":", "7", "b">>
x_1b == <<"x", ":", "1", "b">>

\* C11: the estimate of "x:70b" is greater than the estimate of "x:7b", which
\* is greater than the estimate of "x:1b": the result of a call on any of the
\* three is ordered against the estimates of the other two.
C11_EstimateOrdered ==
  pc = "estimated" =>
    /\ estModel = x_70b =>
         estResult > estimateModelRAM(x_7b) /\ estResult > estimateModelRAM(x_1b)
    /\ estModel = x_7b =>
         estResult < estimateModelRAM(x_70b) /\ estResult > estimateModelRAM(x_1b)
    /\ estModel = x_1b =>
         estResult < estimateModelRAM(x_7b) /\ estResult < estimateModelRAM(x_70b)

\* The call on "x:7b" has returned, strictly between the other two estimates.
C11_Witness ==
  /\ pc = "estimated"
  /\ estModel = x_7b
  /\ estimateModelRAM(x_1b) < estResult
  /\ estResult < estimateModelRAM(x_70b)

\* The status of update k of the stream contains "success".
SaysSuccess(stream, k) ==
  \E a \in 1..Len(stream[k].status) :
    \E b \in a..Len(stream[k].status) :
      SubSeq(stream[k].status, a, b) = <<"s","u","c","c","e","s","s">>

\* Update k and every update before it decode.
DecodableUpTo(stream, k) == \A j \in 1..k : stream[j].decodable

\* C12: pullModel of the smart driver reports success exactly when the pull
\* request was sent without a transport error and either some status update
\* contains "success", with no undecodable update before it, or the stream
\* ends with every update decodable; it reports failure when the request
\* fails or an update cannot be decoded before a success status was seen.
C12_PullContract ==
  (pullCall.returned /\ ~pullCall.basic) =>
    LET stream == pullCall.stream
        succeeded == \E k \in 1..Len(stream) :
                       DecodableUpTo(stream, k) /\ SaysSuccess(stream, k)
        cleanEnd == DecodableUpTo(stream, Len(stream))
        garbled == \E k \in 1..Len(stream) :
                     /\ ~stream[k].decodable
                     /\ \A j \in 1..(k - 1) : ~SaysSuccess(stream, j)
    IN  /\ pullCall.ok <=> (pullCall.postOk /\ (succeeded \/ cleanEnd))
        /\ (~pullCall.postOk \/ garbled) => ~pullCall.ok

\* A pull has returned success on a stream of full length that ends without
\* any success status.
C12_Witness ==
  /\ pullCall.returned /\ ~pullCall.basic
  /\ pullCall.postOk /\ pullCall.ok
  /\ Len(pullCall.stream) = MaxStream
  /\ \A k \in 1..Len(pullCall.stream) : ~SaysSuccess(pullCall.stream, k)

\* The position, in catalog order, of the first summary with a success whose
\* estimated footprint is the lowest among the summaries with a success.
FirstSmallest ==
  CHOOSE i \in WithSuccess :
    \A j \in WithSuccess :
      \/ estimateModelRAM(summaries[i].ModelName) < estimateModelRAM(summaries[j].ModelName)
      \/ /\ estimateModelRAM(summaries[i].ModelName) = estimateModelRAM(summaries[j].ModelName)
         /\ i <= j

\* C13: the most efficient model of the report is the model with a successful
\* result whose estimated footprint is minimal; among several with the minimal
\* estimate it is the first in catalog order, whatever their averages are.
C13_MostEfficientFirstInCatalog ==
  (driver = "smart" /\ pc = "done" /\ WithSuccess # {}) =>
    report.mostEfficient = summaries[FirstSmallest].ModelName

\* The successful results of category c, as pairs of a summary position and a
\* result position.
SuccessesOf(c) ==
  {p \in (1..Len(summaries)) \X (1..NumTests) :
     /\ p[2] <= Len(summaries[p[1]].TestResults)
     /\ summaries[p[1]].TestResults[p[2]].Success
     /\ summaries[p[1]].TestResults[p[2]].Category = c}

\* The first observed, in catalog order, of the successful results of category
\* c with the highest tokens_per_second.
FirstBest(c) ==
  CHOOSE p \in SuccessesOf(c) :
    \A q \in SuccessesOf(c) :
      LET tp == summaries[p[1]].TestResults[p[2]].TokensPerSecond
          tq == summaries[q[1]].TestResults[q[2]].TokensPerSecond
      IN  \/ tp > tq
          \/ tp = tq /\ (p[1] < q[1] \/ (p[1] = q[1] /\ p[2] <= q[2]))

\* C14: for every category occurring among the successful results, the best
\* in category is the model of the successful result of that category with
\* the highest tokens_per_second, the first observed in catalog order on an
\* exact tie; every such category has a best model, also when its successful
\* results all have a tokens_per_second of 0.
C14_BestInCategory ==
  (pc = "done" /\ report.shown) =>
    \A c \in {testCases[k].Category : k \in 1..NumTests} :
      SuccessesOf(c) # {} =>
        /\ c \in DOMAIN report.bestInCategory
        /\ report.bestInCategory[c] = summaries[FirstBest(c)[1]].ModelName

\* The families of the configuration that are enabled.
EnabledFamilies ==
  {config.LLMFamilies[k] : k \in {j \in 1..Len(config.LLMFamilies) : config.LLMFamilies[j].Enabled}}

\* getOllamaLibraryModels has returned.
CatalogBuilt == driver = "smart" /\ pc \in {"nothing", "filter", "model"}

C16_FilterDisabled ==
  (driver = "smart" /\ pc = "model" /\ ~config.SkipIfInsufficientResources) =>
    testableModels = availableModels

\* The filter is disabled and has returned a catalog of several entries none
\* of which would fit.
C16_Witness ==
  /\ driver = "smart" /\ pc = "model" /\ ~config.SkipIfInsufficientResources
  /\ Len(testableModels) >= 2
  /\ testableModels = availableModels
  /\ \A k \in 1..Len(availableModels) :
       ~Admits(availableModels[k], sysInfo.AvailableRAMGB, config.MinFreeRAMGB)

\* Nothing beyond the set-up has happened: no catalog, no pull and no
\* generation request, no summary and no report.
NothingRun ==
  /\ availableModels = <<>>
  /\ \A k \in 1..Len(requests) : requests[k].kind = "tags"
  /\ summaries = <<>>
  /\ results = <<>>
  /\ report = NoReport

\* C17: when the configuration cannot be loaded or the daemon liveness check
\* fails the run aborts before any catalog is built: in a run against a
\* daemon that is down, and in every aborted run, no pull and no generation
\* request is sent, no summary is created and nothing is reported.
C17_AbortBeforeCatalog ==
  /\ ~daemonUp => (NothingRun /\ pc \in {"start", "sysinfo", "check", "aborted"})
  /\ pc = "aborted" => NothingRun

\* The smart driver has aborted on the liveness check: the only request sent
\* is that check.
C17_Witness ==
  /\ driver = "smart" /\ pc = "aborted" /\ ~daemonUp
  /\ requests = <<Request("tags", 0, <<>>, 0, FALSE)>>
  /\ config.LLMFamilies # <<>>
  /\ NothingRun

\* The requests of the given kind sent in iteration iter of the model loop
\* for test case number test (0 for a pull), as positions of the request log.
Sent(kind, iter, test) ==
  {k \in 1..Len(requests) :
     /\ requests[k].kind = kind
     /\ requests[k].iter = iter
     /\ requests[k].test = test}

\* Every admitted model has been sent at most one pull request and at most
\* one generation request for each test case, each naming that model.
SentOnce ==
  \A iter \in 1..Len(testableModels) :
    /\ Cardinality(Sent("pull", iter, 0)) <= 1
    /\ \A test \in 1..NumTests : Cardinality(Sent("generate", iter, test)) <= 1
    /\ \A k \in 1..Len(requests) :
         requests[k].iter = iter => requests[k].model = testableModels[iter]

\* A step leaves the results of the current model and the summaries as they
\* are, appends to them, or starts the empty list of the next model.
ResultsKept ==
  /\ Len(summaries') >= Len(summaries)
  /\ SubSeq(summaries', 1, Len(summaries)) = summaries
  /\ \/ /\ Len(results') >= Len(results)
        /\ SubSeq(results', 1, Len(results)) = results
     \/ /\ results' = <<>>
        /\ pc \in {"model", "pull"}
        /\ pc' = "test"

\* C18: no retries: over a whole run at most one generation request is sent
\* for each admitted model and test case and at most one pull request for
\* each admitted model, whatever fails, and a result once appended to a
\* model's list is never replaced or modified. A model is an entry of the
\* admitted list.
C18_NoRetries == []SentOnce /\ [][ResultsKept]_vars

\* A finished run of the smart driver in which a pull failed and a tested
\* model had a failed generation request: one pull and five generation
\* requests were sent for them.
C18_Witness ==
  /\ driver = "smart" /\ pc = "done"
  /\ \E i, j \in 1..Len(summaries) :
       /\ summaries[i].SkipReason = "Failed to pull model"
       /\ Cardinality(Sent("pull", i, 0)) = 1
       /\ \A test \in 1..NumTests : Sent("generate", i, test) = {}
       /\ Len(summaries[j].TestResults) = NumTests
       /\ ~summaries[j].TestResults[2].Success
       /\ \A test \in 1..NumTests : Cardinality(Sent("generate", j, test)) = 1

\* The place of a request in the order of a run: tags requests of the set-up
\* first, then model by model the install check, the pull and the generation
\* requests test by test.
Earlier(r1, r2) ==
  \/ r1.iter < r2.iter
  \/ /\ r1.iter = r2.iter
     /\ \/ r1.iter = 0
        \/ r1.kind = "tags" /\ r2.kind # "tags"
        \/ r1.kind = "pull" /\ r2.kind = "generate"
        \/ r1.kind = "generate" /\ r2.kind = "generate" /\ r1.test < r2.test

\* The requests were sent in the order of the loops.
RequestsInOrder ==
  \A a, b \in 1..Len(requests) : a < b => Earlier(requests[a], requests[b])

\* A step sends at most one request; it is the whole blocking call, the
\* response read, so the request before it has completed.
OneRequestAStep ==
  \/ requests' = requests
  \/ /\ Len(requests') = Len(requests) + 1
     /\ SubSeq(requests', 1, Len(requests)) = requests

C20_WithinRAMShare ==
  Filtered =>
    \A k \in 1..Len(testableModels) :
      estimateModelRAM(testableModels[k]) * 100
        <= config.MaxRAMUsagePercent * sysInfo.TotalRAMGB

\* The identifiers a catalog could hold: the installed names, the catalog's
\* entries and the reference variants of every family of the configuration.
Identifiers ==
  installed \cup Range(availableModels)
    \cup UNION {Range(getCommonVariants(config.LLMFamilies[k].Name)) :
                  k \in 1..Len(config.LLMFamilies)}

\* Some enabled family is the source of the identifier: it prefixes the
\* installed name, or it asks for all variants and the identifier is one of
\* its reference variants (family:latest for a family missing from the table).
Sourced(id) ==
  \E f \in EnabledFamilies :
    \/ id \in installed /\ HasPrefix(id, f.Name)
    \/ f.TestAllVariants /\ InSeq(getCommonVariants(f.Name), id)

\* The request of getOllamaLibraryModels: the second of a run, after the one
\* of checkOllamaRunning.
CatalogRequest == requests[2]

\* C21 as claimed: an identifier is in the catalog if and only if some enabled
\* family is its source, whether or not the listing of the installed models
\* could be read.
C21_CatalogMembership ==
  CatalogBuilt => \A id \in Identifiers : InSeq(availableModels, id) <=> Sourced(id)

\* C21 amended: when the listing of the installed models was read, an
\* identifier is in the catalog if and only if some enabled family is its
\* source; when the listing failed the catalog is empty.
C21_CatalogMembershipWhenListed ==
  CatalogBuilt =>
    IF CatalogRequest.ok
    THEN \A id \in Identifiers : InSeq(availableModels, id) <=> Sourced(id)
    ELSE availableModels = <<>>

\* The listing was read; the catalog holds an installed name that an enabled
\* family prefixes and a reference variant that is not installed, and a
\* disabled family asking for all variants has contributed nothing.
C21_Witness ==
  /\ CatalogBuilt /\ CatalogRequest.ok
  /\ \E id \in installed : InSeq(availableModels, id)
  /\ \E k \in 1..Len(availableModels) : availableModels[k] \notin installed
  /\ \E k \in 1..Len(config.LLMFamilies) :
       LET f == config.LLMFamilies[k]
       IN  /\ ~f.Enabled /\ f.TestAllVariants
           /\ \A j \in 1..Len(getCommonVariants(f.Name)) :
                ~InSeq(availableModels, getCommonVariants(f.Name)[j])

\* getSystemInfo has returned a SystemInfo.
Profiled == sysInfo # NoSysInfo

\* The available memory of the claim: 70% of the total, truncated, on arm64
\* and the total less 8 GB elsewhere; never above the total; below 8 GB of
\* total RAM outside arm64 the filter admits nothing.
AvailableAsClaimed ==
  Profiled =>
    /\ sysInfo.AvailableRAMGB =
         IF sysInfo.Arch = "arm64" THEN (sysInfo.TotalRAMGB * 7) \div 10
         ELSE sysInfo.TotalRAMGB - 8
    /\ sysInfo.AvailableRAMGB <= sysInfo.TotalRAMGB
    /\ (Filtered /\ sysInfo.Arch # "arm64" /\ sysInfo.TotalRAMGB < 8
          /\ config.MinFreeRAMGB >= 0) => testableModels = <<>>

\* Once computed, the SystemInfo stays as it is.
ProfileKept == Profiled => sysInfo' = sysInfo

\* C22: available_gb is computed once from total_gb and never changes: 70% of
\* total_gb truncated to an integer on arm64, total_gb - 8 elsewhere (negative
\* below 8 GB, so that nothing is admitted for any non-negative margin), and
\* never above total_gb.
C22_AvailableRAM == []AvailableAsClaimed /\ [][ProfileKept]_vars

\* A stand-alone runBenchmark call has returned its result.
Benched == pc = "benched"

\* The response of a stand-alone runBenchmark call failed at sending, reading
\* or decoding.
BenchFailed == genMode.kind \in {"sendErr", "readErr", "parseErr"}

\* C23: runBenchmark returns success = false with a non-empty error exactly
\* when sending the request, reading the body or decoding it fails, and then
\* every metric is zero; otherwise it returns success = true with an empty
\* error; so success holds iff the error is empty.
C23_FailureIffError ==
  Benched =>
    LET result == results[1]
    IN  /\ BenchFailed <=> (~result.Success /\ result.Error # "")
        /\ ~BenchFailed <=> (result.Success /\ result.Error = "")
        /\ result.Success <=> result.Error = ""
        /\ BenchFailed =>
             /\ result.TokensPerSecond = 0 /\ result.TimeToFirstToken = 0
             /\ result.TotalTokens = 0 /\ result.PromptTokens = 0
             /\ result.TotalTimeMs = 0

\* A call of the basic driver got a body that does not decode and returned
\* the failure with its error string.
C23_Witness ==
  /\ Benched /\ driver = "basic" /\ genMode.kind = "parseErr"
  /\ ~results[1].Success /\ results[1].Error = "Failed to parse response"

\* C24: for a successful response tokens_per_second is
\* eval_count * 1e9 / eval_duration when eval_duration > 0 and 0 when it is 0;
\* time_to_first_token_ms is (load_duration + prompt_eval_duration) / 1e6 when
\* both are positive and 0 when either is 0 (values in units of 1/FloatDen,
\* durations in nanoseconds).
C24_Metrics ==
  (Benched /\ ~BenchFailed) =>
    LET result == results[1]
        evalMs == genMode.EvalDuration \div 1000000
        firstMicros == (genMode.LoadDuration + genMode.PromptEvalDuration) \div 1000
    IN  /\ genMode.EvalDuration > 0 =>
             result.TokensPerSecond * evalMs = genMode.EvalCount * 1000 * FloatDen
        /\ genMode.EvalDuration = 0 => result.TokensPerSecond = 0
        /\ (genMode.LoadDuration > 0 /\ genMode.PromptEvalDuration > 0) =>
             result.TimeToFirstToken * 1000 = firstMicros * FloatDen
        /\ (genMode.LoadDuration = 0 \/ genMode.PromptEvalDuration = 0) =>
             result.TimeToFirstToken = 0

\* A successful response of 15 tokens in half a second with a zero load
\* duration: 30 tokens a second and no time to first token.
C24_Witness ==
  /\ Benched /\ ~BenchFailed
  /\ genMode.EvalCount = 15 /\ genMode.EvalDuration = 500000000
  /\ genMode.LoadDuration = 0 /\ genMode.PromptEvalDuration > 0
  /\ results[1].TokensPerSecond = 30 * FloatDen
  /\ results[1].TimeToFirstToken = 0

\* Request number k of the log came after a request of one of the given kinds
\* sent in the same iteration of the model loop and answered with ok.
After(k, kinds, ok) ==
  \E j \in 1..(k - 1) :
    /\ requests[j].iter = requests[k].iter
    /\ requests[j].kind \in kinds
    /\ requests[j].ok = ok

\* C25: per model the smart driver checks, then pulls, then tests: an install
\* check succeeds only for a model whose exact name is installed; a
\* generation request follows a successful install check or a successful
\* pull of that model; a pull follows a failed install check and needs
\* auto_pull_models; after a failed check without auto-pull neither a pull nor
\* a generation request is sent for the model and its skip reason is "Model
\* not installed".
C25_CheckPullTest ==
  driver = "smart" =>
    \A k \in 1..Len(requests) :
      LET r == requests[k]
      IN  r.iter >= 1 =>
            /\ (r.kind = "tags" /\ r.ok) => r.model \in installed
            /\ r.kind = "generate" => After(k, {"tags", "pull"}, TRUE)
            /\ r.kind = "pull" => (config.AutoPullModels /\ After(k, {"tags"}, FALSE))
            /\ (r.kind = "tags" /\ ~r.ok /\ ~config.AutoPullModels) =>
                 /\ \A j \in 1..Len(requests) :
                      requests[j].iter = r.iter => requests[j].kind = "tags"
                 /\ Len(summaries) >= r.iter
                 /\ summaries[r.iter].SkipReason = "Model not installed"

\* A finished run of the smart driver without auto-pull: one model was
\* installed and got its generation requests, another was not and got
\* neither a pull nor a generation request.
C25_Witness ==
  /\ driver = "smart" /\ pc = "done" /\ ~config.AutoPullModels
  /\ \E i, j \in 1..Len(testableModels) :
       /\ testableModels[i] \in installed
       /\ \A test \in 1..NumTests : Sent("generate", i, test) # {}
       /\ testableModels[j] \notin installed
       /\ summaries[j].SkipReason = "Model not installed"
       /\ \A k \in 1..Len(requests) : requests[k].iter = j => requests[k].kind = "tags"

\* C26: pullModel of the basic driver follows the pull contract of the smart
\* driver: it reports success exactly when the request was sent without a
\* transport error and either some status update contains "success", with no
\* undecodable update before it, or the stream ends with every update
\* decodable.
C26_BasicPullContract ==
  (pullCall.returned /\ pullCall.basic) =>
    LET stream == pullCall.stream
        succeeded == \E k \in 1..Len(stream) :
                       DecodableUpTo(stream, k) /\ SaysSuccess(stream, k)
        cleanEnd == DecodableUpTo(stream, Len(stream))
    IN  pullCall.ok <=> (pullCall.postOk /\ (succeeded \/ cleanEnd))

\* C27: the overall performance ranking printed by the basic driver is in
\* non-increasing order of avg_tokens_per_sec and holds no model without a
\* successful result.
C27_BasicRanking ==
  (driver = "basic" /\ pc = "done" /\ report.shown) =>
    /\ \A k \in 1..(Len(report.ranking) - 1) :
         report.ranking[k].AvgTokensPerSec >= report.ranking[k + 1].AvgTokensPerSec
    /\ \A k \in 1..Len(report.ranking) :
         SuccessCount(report.ranking[k].TestResults) > 0

\* The size tag of the claim: everything after the first ':' of the
\* identifier, "unknown" for an identifier without ':'.
SizeTag(modelName) ==
  IF \E i \in 1..Len(modelName) : modelName[i] = ":"
  THEN SubSeq(modelName,
              (CHOOSE i \in 1..Len(modelName) :
                 modelName[i] = ":" /\ \A j \in 1..(i - 1) : modelName[j] # ":") + 1,
              Len(modelName))
  ELSE <<"u","n","k","n","o","w","n">>

\* C28: the estimate is the one the chain gives for the size tag, the whole
\* remainder after the first ':' (or "unknown"), and is the default 5 for a tag
\* that contains none of the chain's tokens.
C28_EstimateOfSizeTag ==
  pc = "estimated" =>
    LET tag == SizeTag(estModel)
    IN  /\ estResult = IF FirstArm(tag, 1) = 0 THEN 5
                       ELSE estimateArms[FirstArm(tag, 1)].sizeNum
        /\ (\A tok \in Tokens : ~Contains(tag, tok)) => estResult = 5

\* The models checkModelCompatibility has been through.
Checked == 1..(checker.k - 1)

\* The available memory of the claim: 70% of the total RAM, truncated, on
\* arm64 with Metal, the total RAM otherwise.
ClaimedMemory ==
  IF checker.resources.Arch = "arm64" /\ checker.resources.HasMetalAPI
  THEN (checker.resources.TotalRAM * 7) \div 10
  ELSE checker.resources.TotalRAM

\* The model is incompatible by the three conditions of the claim.
ClaimedIncompatible(model) ==
  \/ model.MinRAM > ClaimedMemory
  \/ model.RequiresGPU /\ ~checker.resources.HasMetalAPI
  \/ /\ model.MinGPUMemory > 0
     /\ checker.resources.Arch # "arm64"
     /\ checker.resources.GPUMemory < model.MinGPUMemory

\* The number of entries of a list that name the model.
Entries(list, model) == Cardinality({j \in 1..Len(list) : list[j].Name = model.Name})

\* C29: checkModelCompatibility puts every model it has been through in
\* exactly one of the lists compatible and incompatible, in incompatible iff
\* its MinRAM exceeds the available memory, or it requires a GPU and Metal is
\* unavailable, or it needs GPU memory the non-arm64 machine lacks; every
\* incompatible entry carries a non-empty reason.
C29_Compatibility ==
  (driver = "checker" /\ pc \in {"compatibility", "done"}) =>
    /\ \A k \in Checked :
         LET model == checkerModels[k]
         IN  /\ Entries(checker.compatible, model)
                  + Entries(checker.incompatible, model) = 1
             /\ Entries(checker.incompatible, model) = 1 <=> ClaimedIncompatible(model)
    /\ Len(checker.compatible) + Len(checker.incompatible) = Cardinality(Checked)
    /\ \A j \in 1..Len(checker.incompatible) : checker.incompatible[j].reason # ""

\* The checker is through every model on an arm64 machine with Metal and
\* 16 GB: the models of up to 11 GB are compatible and the others are not,
\* each with its reason.
C29_Witness ==
  /\ driver = "checker" /\ pc = "done"
  /\ checker.resources.Arch = "arm64" /\ checker.resources.HasMetalAPI
  /\ checker.resources.TotalRAM = 16
  /\ \E j \in 1..Len(checker.compatible) :
       checker.compatible[j].Name = "Stable Diffusion XL"
  /\ \E j \in 1..Len(checker.incompatible) :
       /\ checker.incompatible[j].Name = "CodeLlama 34B (Q4)"
       /\ checker.incompatible[j].reason = "Insufficient RAM"
  /\ Len(checker.compatible) + Len(checker.incompatible) = Len(checkerModels)

\* The run has ended: main has returned.
Ended == pc \in {"aborted", "nothing", "done"}

\* The generation requests sent in iteration iter of the model loop.
Generated(iter) ==
  {k \in 1..Len(requests) : requests[k].kind = "generate" /\ requests[k].iter = iter}

\* The iterations of the model loop that passed the install step: the install
\* check or the pull succeeded.
Passed ==
  {iter \in 1..Len(testableModels) :
     \E k \in 1..Len(requests) :
       /\ requests[k].iter = iter
       /\ requests[k].kind \in {"tags", "pull"}
       /\ requests[k].ok}

\* The iterations of the model loop that are over.
Over == {iter \in 1..Len(testableModels) : iter < m \/ pc = "done"}

\* The requests of the smart driver are bounded: at most one pull and at most
\* five generation requests for an admitted model, none or five once its
\* iteration is over, five exactly for a model that passed the install step;
\* at the end of the run five times the number of those models in total.
RequestsBounded ==
  driver = "smart" =>
    /\ \A iter \in 1..Len(testableModels) :
         /\ Cardinality(Sent("pull", iter, 0)) <= 1
         /\ Cardinality(Generated(iter)) <= NumTests
         /\ iter \in Over =>
              Cardinality(Generated(iter)) = IF iter \in Passed THEN NumTests ELSE 0
    /\ \A k \in 1..Len(requests) : requests[k].iter <= Len(testableModels)
    /\ pc = "done" =>
         /\ Cardinality({k \in 1..Len(requests) : requests[k].kind = "generate"})
              = NumTests * Cardinality(Passed)
         /\ Cardinality({k \in 1..Len(requests) : requests[k].kind = "generate"})
              <= NumTests * Len(testableModels)

\* C30 as claimed: a run of the smart driver that has ended has reached the
\* report, and its requests are bounded.
C30_ReportAlwaysReached ==
  /\ driver = "smart" /\ Ended => pc = "done"
  /\ RequestsBounded

\* C30 amended: every run of the smart driver ends; a run that has a
\* non-empty catalog ends with the report reached; the requests are bounded.
C30_Terminates ==
  /\ <>(driver = "smart" => Ended)
  /\ [](driver = "smart" /\ Ended /\ availableModels # <<>> => pc = "done")
  /\ []RequestsBounded

\* A finished run of the smart driver over two admitted models: one passed
\* the install step and got its five generation requests, the pull of the
\* other failed and it got none.
C30_Witness ==
  /\ driver = "smart" /\ pc = "done" /\ report.shown
  /\ Len(testableModels) = 2
  /\ Cardinality(Passed) = 1
  /\ \E iter \in 1..2 : iter \notin Passed /\ Cardinality(Sent("pull", iter, 0)) = 1
  /\ Cardinality({k \in 1..Len(requests) : requests[k].kind = "generate"}) = NumTests

====
